---------------------------- MODULE Spec2Model ----------------------------
(* A model of oxide_sync: the delta engine (src/cryptography), the sender's   *)
(* Pipeline and per-file loop (src/pipeline/mod.rs, src/main.rs client arm)   *)
(* and the receiver's responder loop (src/main.rs server arm).                *)
(*                                                                            *)
(* Specifications:                                                            *)
(*   SpecDelta    Delta::diff followed by Delta::apply on bounded inputs      *)
(*   Spec         one session: the sender's main against the receiver's loop  *)
(*                over two FIFO pipes                                         *)
(*   SpecSender   the sender's main against an arbitrary peer                 *)
(*   SpecPipeline the Pipeline operations called in any order against an      *)
(*                arbitrary peer                                              *)
EXTENDS Integers, Sequences, FiniteSets, TLC

VARIABLES
    \* ---- delta engine (SpecDelta)
    base,        \* the receiver's copy of the file (bytes)
    new,         \* the sender's copy of the file (bytes)
    bsize,       \* block_size
    delta,       \* Delta.ops
    out,         \* result of Delta::apply
    dphase,      \* "off" | "input" | "diffed" | "applied"
    soff,        \* the offset a WeakSignature signs at
    sprev,       \* the block sign(soff) returned
    snext,       \* the block compute_next_signature(sprev) returned
    built,       \* the add_byte / add_index calls made on delta, in order
    wire,        \* one pipe at byte level: its bytes, its writer and its reader
    itable,      \* an IndexTable with the add and find calls made on it
    \* ---- the two pipes and the peers' lives
    c2s,         \* frames written by the sender, not yet read by the receiver
    s2c,         \* frames written by the receiver, not yet read by the sender
    s_alive,     \* the sender still holds its tunnel
    r_alive,     \* the receiver process still runs
    \* ---- sender: Pipeline fields and main's locals
    connected,   \* Pipeline.connected
    flist,       \* Pipeline.flist
    stats,       \* Pipeline.stats
    pc,          \* "idle", or the read at which an operation is suspended
    ret,         \* the Result of the last operation
    step,        \* main's position in the client sequence ("free": no main)
    idx,         \* entries of flist the per-file loop has finished
    printed,     \* what the per-file loop printed
    cli,         \* the parsed command line (from, to, options)
    lfs,         \* sender's local files: path -> state and bytes
    \* ---- receiver: main's locals in server mode
    r_flist,     \* flist
    r_opts,      \* opts
    r_exit,      \* "running", or how the server loop ended
    rfs,         \* receiver's files: path -> readable and bytes
    \* ---- history
    trace,       \* every tunnel write and read, in order: <<who, "w"|"r", msg>>
    op,          \* the operation in progress or last returned, with what it
                 \* wrote and read and the Pipeline fields at its call
    budget,      \* frames the arbitrary peer may still send
    calls        \* operations the arbitrary caller has called

dvars == <<base, new, bsize, delta, out, dphase, soff, sprev, snext, built, wire, itable>>
pipes == <<c2s, s2c, s_alive, r_alive>>
svars == <<connected, flist, stats, pc, ret, step, idx, printed, cli, lfs>>
rvars == <<r_flist, r_opts, r_exit, rfs>>
hvars == <<trace, op, budget, calls>>

vars == <<dvars, pipes, svars, rvars, hvars>>

-----------------------------------------------------------------------------
(* Bounds                                                                    *)

MaxLen == 6          \* longest base / new buffer
MaxBlock == 4        \* largest block size tried
MaxFrames == 5       \* frames an arbitrary peer sends
MaxCalls == 3        \* operations an arbitrary caller calls
MaxClientFrames == 3 \* frames an arbitrary client sends to the server
MaxSlide == 2        \* bytes a signed buffer extends beyond one block
MaxOps == 3          \* ops of a delta built by hand
MaxIndex == 2        \* largest small block index of such a delta
MaxBase == 3         \* longest base such a delta is applied to
Byte == {0, 1}       \* the u8 values drawn for buffers

MODULUS == 65536

RECURSIVE SeqsUpTo(_, _)
SeqsUpTo(S, n) ==
    IF n = 0 THEN {<<>>}
    ELSE LET shorter == SeqsUpTo(S, n - 1)
         IN  shorter \cup {Append(s, x) : s \in {t \in shorter : Len(t) = n - 1}, x \in S}

-----------------------------------------------------------------------------
(* Rust integer remainder: the sign follows the dividend.                    *)
RustRem(a, m) == IF a >= 0 THEN a % m ELSE 0 - ((0 - a) % m)

\* A signature is an i64 below MODULUS * MODULUS, beyond TLC's 32-bit integers:
\* the value hi * MODULUS + lo is written as its two digits, hi and lo both in
\* 0..MODULUS-1. Two signatures are equal exactly when their digits are.
Wide(hi, lo) == <<hi, lo>>

\* (r1 + MODULUS * r2) % (MODULUS * MODULUS) in i64. Both callers pass r1 and r2
\* already reduced into 0..MODULUS-1, where the outer remainder changes nothing.
Combine(r1, r2) == Wide(r2, r1)

\* iter().sum(); the sum is taken by halves, which keeps the evaluation shallow
\* for a block of BLOCK_SIZE bytes and adds the same terms
RECURSIVE SumSeq(_)
SumSeq(s) ==
    IF Len(s) = 0 THEN 0
    ELSE IF Len(s) = 1 THEN s[1]
    ELSE LET h == Len(s) \div 2
         IN  SumSeq(SubSeq(s, 1, h)) + SumSeq(SubSeq(s, h + 1, Len(s)))

\* sum over i of (block_size - i) * block[i], i counted from 0
RECURSIVE WeightedSum(_, _, _, _)
WeightedSum(block, B, lo, hi) ==
    IF lo >= hi THEN 0
    ELSE IF lo + 1 = hi THEN (B - lo) * block[lo + 1]
    ELSE LET mid == (lo + hi) \div 2
         IN  WeightedSum(block, B, lo, mid) + WeightedSum(block, B, mid, hi)

WeakSignatureBlock(offset, signature, r1, r2) ==
    [offset |-> offset, signature |-> signature, r1 |-> r1, r2 |-> r2]

\* WeakSignature::sign; &self.data[offset..offset + block_size] panics when the
\* window leaves the buffer, so callers only use it with offset + B <= Len(data)
Sign(data, B, offset) ==
    LET block == SubSeq(data, offset + 1, offset + B)
        r1 == RustRem(SumSeq(block), MODULUS)
        r2 == RustRem(WeightedSum(block, B, 0, Len(block)), MODULUS)
        r  == Combine(r1, r2)
    IN  WeakSignatureBlock(offset, r, r1, r2)

\* a variant that reduces r1 and r2 with % alone, without "keep positive"
ComputeNextSignature_Mutant(data, B, prev) ==
    LET new_offset == prev.offset + 1
        old_idx == prev.offset
        new_idx == old_idx + B
    IN  IF new_idx >= Len(data) THEN prev
        ELSE LET old_byte == data[old_idx + 1]
                 new_byte == data[new_idx + 1]
                 r1 == RustRem(prev.r1 - old_byte + new_byte, MODULUS)
                 r2 == RustRem(prev.r2 - (B * old_byte) + r1, MODULUS)
                 r  == Combine(r1, r2)
             IN  WeakSignatureBlock(new_offset, r, r1, r2)

\* WeakSignature::compute_next_signature
ComputeNextSignature(data, B, prev) ==
    LET new_offset == prev.offset + 1
        old_idx == prev.offset
        new_idx == old_idx + B
    IN  IF new_idx >= Len(data) THEN prev
        ELSE LET old_byte == data[old_idx + 1]
                 new_byte == data[new_idx + 1]
                 r1 == RustRem(RustRem(prev.r1 - old_byte + new_byte, MODULUS) + MODULUS, MODULUS)
                 r2 == RustRem(RustRem(prev.r2 - (B * old_byte) + r1, MODULUS) + MODULUS, MODULUS)
                 r  == Combine(r1, r2)
             IN  WeakSignatureBlock(new_offset, r, r1, r2)

\* compute_strong_signature: the hex Blake2s-256 digest, taken as collision-free:
\* the digest of a buffer is a value that determines the buffer.
ComputeStrongSignature(data) == <<"blake2s", data>>

-----------------------------------------------------------------------------
(* IndexTable: a map from weak signature value to (strong_signature, index)  *)

EmptyTable == <<>>

\* an add that keeps the entry already stored under the key (entry().or_insert)
TableAdd_Mutant(table, weak, strong, index) ==
    [s \in (DOMAIN table) \cup {weak.signature} |->
        IF s \in DOMAIN table
        THEN table[s]
        ELSE [strong_signature |-> strong, index |-> index]]

\* IndexTable::add: HashMap::insert replaces an entry with the same key
TableAdd(table, weak, strong, index) ==
    [s \in (DOMAIN table) \cup {weak.signature} |->
        IF s = weak.signature
        THEN [strong_signature |-> strong, index |-> index]
        ELSE table[s]]

None == <<>>
Some(x) == <<x>>

\* IndexTable::find
TableFind(table, signature) ==
    IF signature \in DOMAIN table
    THEN Some(<<table[signature].index, table[signature].strong_signature>>)
    ELSE None

\* the chunks taken with chunks() instead of chunks_exact(): the trailing
\* partial block is signed and added too
RECURSIVE ChunkAdds_Mutant(_, _, _, _)
ChunkAdds_Mutant(data, B, i, prev_hash) ==
    IF i * B >= Len(data) THEN <<>>
    ELSE LET last == IF (i + 1) * B > Len(data) THEN Len(data) ELSE (i + 1) * B
             block == SubSeq(data, i * B + 1, last)
             strong == ComputeStrongSignature(block)
         IN  IF i = 0
             THEN LET sign == Sign(data, B, 0)
                  IN  <<<<sign, strong, 0>>>> \o ChunkAdds_Mutant(data, B, 1, Some(sign))
             ELSE LET rolling == ComputeNextSignature(data, B, prev_hash[1])
                  IN  <<<<rolling, strong, i>>>>
                          \o ChunkAdds_Mutant(data, B, i + 1, Some(rolling))

\* the else branch of the table construction: base.chunks_exact(block_size)
\* enumerated, sign(0) for chunk 0 and one compute_next_signature per later
\* chunk; the result is the calls of index_table.add in order, from chunk i on
RECURSIVE ChunkAdds(_, _, _, _)
ChunkAdds(data, B, i, prev_hash) ==
    IF (i + 1) * B > Len(data) THEN <<>>
    ELSE LET block == SubSeq(data, i * B + 1, (i + 1) * B)
             strong == ComputeStrongSignature(block)
         IN  IF i = 0
             THEN LET sign == Sign(data, B, 0)
                  IN  <<<<sign, strong, 0>>>> \o ChunkAdds(data, B, 1, Some(sign))
             ELSE LET rolling == ComputeNextSignature(data, B, prev_hash[1])
                  IN  <<<<rolling, strong, i>>>>
                          \o ChunkAdds(data, B, i + 1, Some(rolling))

\* the calls of index_table.add made one after the other on a table
RECURSIVE TableAddAll(_, _)
TableAddAll(table, adds) ==
    IF adds = <<>> THEN table
    ELSE TableAddAll(TableAdd(table, adds[1][1], adds[1][2], adds[1][3]), Tail(adds))

\* the table the loop leaves: its adds from chunk i on, applied to table
TableChunks(data, B, i, prev_hash, table) ==
    TableAddAll(table, ChunkAdds(data, B, i, prev_hash))

\* "Build index table from base file": Delta::diff and the receiver's FileIndex
\* handler hold the same code
BuildIndexTable(data, B) ==
    IF Len(data) < B
    THEN LET strong == ComputeStrongSignature(data)
             weak_val == RustRem(SumSeq(data), MODULUS)
             weak == WeakSignatureBlock(0, Wide(0, weak_val), weak_val, weak_val)
         IN  TableAdd(EmptyTable, weak, strong, 0)
    ELSE TableChunks(data, B, 0, None, EmptyTable)

-----------------------------------------------------------------------------
(* Delta                                                                     *)

OpIndex(i) == <<"Index", i>>
OpBlock(bytes) == <<"Block", bytes>>
IsIndex(o) == o[1] = "Index"
IsBlock(o) == o[1] = "Block"

\* Delta::add_block / Delta::add_index
AddBlock(ops, block) == Append(ops, OpBlock(block))
AddIndex(ops, index) == Append(ops, OpIndex(index))

\* Delta::add_byte with every byte opening a Block of its own
AddByte_Mutant(ops, byte) == AddBlock(ops, <<byte>>)

\* Delta::add_byte
AddByte(ops, byte) ==
    IF ops = <<>> THEN AddBlock(ops, <<byte>>)
    ELSE LET last == ops[Len(ops)]
         IN  IF IsBlock(last)
             THEN [ops EXCEPT ![Len(ops)] = OpBlock(Append(last[2], byte))]
             ELSE AddBlock(ops, <<byte>>)

\* a flush without the is_empty test: a Block is pushed even with no literal
Flush_Mutant(ops, unmatched) == AddBlock(ops, unmatched)

\* the flush of the unmatched buffer: add_block when it is non-empty
Flush(ops, unmatched) == IF unmatched # <<>> THEN AddBlock(ops, unmatched) ELSE ops

\* a variant that trusts the weak signature alone: no strong comparison
StrongMatches_Mutant(strong, window) == TRUE

\* "if strong == strong2": the candidate's strong signature against the window's
StrongMatches(strong, window) == strong = ComputeStrongSignature(window)

\* the scan loop of Delta::diff with its tail handling and final flush
RECURSIVE Scan(_, _, _, _, _, _, _)
Scan(data, B, table, i, prev_hash, unmatched, ops) ==
    IF i + B <= Len(data)
    THEN LET cur_hash == IF prev_hash # None THEN prev_hash[1] ELSE Sign(data, B, i)
             found == TableFind(table, cur_hash.signature)
             matched == /\ found # None
                        /\ StrongMatches(found[1][2], SubSeq(data, i + 1, i + B))
         IN  IF matched
             THEN LET j == i + B
                  IN  Scan(data, B, table, j,
                           IF j + B <= Len(data) THEN Some(Sign(data, B, j)) ELSE None,
                           <<>>, AddIndex(Flush(ops, unmatched), found[1][1]))
             ELSE LET j == i + 1
                  IN  Scan(data, B, table, j,
                           IF j + B <= Len(data)
                           THEN Some(ComputeNextSignature(data, B, cur_hash))
                           ELSE None,
                           Append(unmatched, data[i + 1]), ops)
    ELSE Flush(ops, unmatched \o SubSeq(data, i + 1, Len(data)))

\* the short-new branch without its is_empty test: an empty new yields Block([])
DiffAgainst_Mutant(table, data, B) ==
    IF Len(data) < B
    THEN AddBlock(<<>>, data)
    ELSE Scan(data, B, table, 0, Some(Sign(data, B, 0)), <<>>, <<>>)

\* the sender's half of Delta::diff, given the base's index table: the short-new
\* branch, then the scan (main.rs holds the same code in its per-file loop)
DiffAgainst(table, data, B) ==
    IF Len(data) < B
    THEN (IF data # <<>> THEN AddBlock(<<>>, data) ELSE <<>>)
    ELSE Scan(data, B, table, 0, Some(Sign(data, B, 0)), <<>>, <<>>)

\* Delta::diff
Diff(b, n, B) == DiffAgainst(BuildIndexTable(b, B), n, B)

Min(a, b) == IF a <= b THEN a ELSE b

Ok(v) == [ok |-> TRUE, val |-> v]
Err(e) == [ok |-> FALSE, val |-> e]

\* usize is 64 bits wide, beyond TLC's integers. Where its width matters a
\* usize is written as four 16-bit digits, most significant first.
UsizeBase == 65536

\* the digits of a small number
UsizeOf(n) == <<0, 0, n \div UsizeBase, n % UsizeBase>>

\* an Ops::Index whose value does not fit a TLC integer, given by its digits
OpIndexWide(digits) == <<"IndexWide", digits>>
IsIndexWide(o) == o[1] = "IndexWide"

\* the usize an Index op holds
IndexDigits(o) == IF IsIndexWide(o) THEN o[2] ELSE UsizeOf(o[2])

\* d * n in usize, n small: the wrapped product, and whether it passed 2^64
UsizeMul(d, n) ==
    LET p4 == d[4] * n
        p3 == d[3] * n + p4 \div UsizeBase
        p2 == d[2] * n + p3 \div UsizeBase
        p1 == d[1] * n + p2 \div UsizeBase
    IN  [overflow |-> p1 \div UsizeBase > 0,
         val |-> <<p1 % UsizeBase, p2 % UsizeBase, p3 % UsizeBase, p4 % UsizeBase>>]

\* d + n in usize, n small: the wrapped sum, and whether it passed 2^64
UsizeAdd(d, n) ==
    LET s4 == d[4] + n
        s3 == d[3] + s4 \div UsizeBase
        s2 == d[2] + s3 \div UsizeBase
        s1 == d[1] + s2 \div UsizeBase
    IN  [overflow |-> s1 \div UsizeBase > 0,
         val |-> <<s1 % UsizeBase, s2 % UsizeBase, s3 % UsizeBase, s4 % UsizeBase>>]

\* whether a usize is at least the small number n, and its value when it is not
UsizeIsSmall(d) == d[1] = 0 /\ d[2] = 0 /\ d[3] < 32768
UsizeValue(d) == d[3] * UsizeBase + d[4]
UsizeAtLeast(d, n) == ~UsizeIsSmall(d) \/ UsizeValue(d) >= n

\* the two ways integer overflow is compiled: a panic with overflow checks (the
\* dev profile), two's complement wrapping without them (the release profile)
Builds == {"debug", "release"}

Panicked == [ok |-> FALSE, val |-> <<"panic">>]

\* Delta::apply
RECURSIVE ApplyFrom(_, _, _, _, _, _)
ApplyFrom(ops, k, b, B, output, build) ==
    IF k > Len(ops) THEN Ok(output)
    ELSE LET o == ops[k]
         IN  IF IsIndex(o) \/ IsIndexWide(o)
             THEN LET start == UsizeMul(IndexDigits(o), B)
                      sum == UsizeAdd(start.val, B)
                      end == IF UsizeAtLeast(sum.val, Len(b)) THEN Len(b)
                             ELSE UsizeValue(sum.val)
                  IN  IF build = "debug" /\ (start.overflow \/ sum.overflow)
                      THEN Panicked
                      ELSE IF UsizeAtLeast(start.val, Len(b))
                      THEN Err(<<"InvalidData">>)
                      ELSE ApplyFrom(ops, k + 1, b, B,
                                     output \o SubSeq(b, UsizeValue(start.val) + 1, end),
                                     build)
             ELSE ApplyFrom(ops, k + 1, b, B, output \o o[2], build)

Apply(ops, b, B, build) == ApplyFrom(ops, 1, b, B, <<>>, build)

-----------------------------------------------------------------------------
(* Paths are sequences of components; Path::starts_with and Path::ends_with  *)
(* compare whole components.                                                 *)

IsPrefix(p, q) == Len(p) <= Len(q) /\ SubSeq(q, 1, Len(p)) = p
IsSuffix(p, q) == Len(p) <= Len(q) /\ SubSeq(q, Len(q) - Len(p) + 1, Len(q)) = p

\* the receiver's destination tree: dst/a, dst/sub/, dst/sub/b
Root == <<"dst">>
FileA == <<"dst", "a">>
DirSub == <<"dst", "sub">>
FileB == <<"dst", "sub", "b">>
Gone == <<"gone">>
RecvPaths == {FileA, DirSub, FileB}

DirEntry(path, kind) == [path |-> path, kind |-> kind]

\* ignore::Walk::new(root): the root and everything below it; a root that does
\* not exist yields one error item
Walk(root) ==
    IF root = Root
    THEN <<DirEntry(Root, "dir"), DirEntry(FileA, "file"),
           DirEntry(DirSub, "dir"), DirEntry(FileB, "file")>>
    ELSE <<DirEntry(root, "error")>>

\* std::fs::read_dir(root): the directory's own entries, or an error
ReadDir(root) ==
    IF root = Root
    THEN Ok(<<DirEntry(FileA, "file"), DirEntry(DirSub, "dir")>>)
    ELSE Err(<<"NotFound">>)

\* FlistEntry, with the fields the protocol's behaviour reads
FlistEntry(index, filename, is_dir) ==
    [index |-> index, filename |-> filename, is_dir |-> is_dir]

\* ClientServerOpts, with the fields the receiver reads
ClientServerOpts(to, recursive, exclude) ==
    [to |-> to, recursive |-> recursive, exclude |-> exclude]

\* ClientServerOpts::default()
DefaultOpts == ClientServerOpts(<<>>, FALSE, <<>>)

\* opts.exclude.iter().any(|p| path.starts_with(p) || path.ends_with(p))
AnyExcludeMatches(o, path) ==
    \E k \in 1..Len(o.exclude) :
        IsPrefix(o.exclude[k], path) \/ IsSuffix(o.exclude[k], path)

\* the recursive branch: regular files that no exclude path matches
RECURSIVE WalkFilter(_, _)
WalkFilter(o, entries) ==
    IF entries = <<>> THEN <<>>
    ELSE LET e == Head(entries)
             rest == WalkFilter(o, Tail(entries))
         IN  IF e.kind = "file" /\ ~AnyExcludeMatches(o, e.path)
             THEN <<FlistEntry(0, e.path, FALSE)>> \o rest
             ELSE rest

WalkFiles(o) == WalkFilter(o, Walk(o.to))

\* the non-recursive branch: "if !exclude.any(..) { return None }", an entry is
\* dropped when no exclude path matches it
RECURSIVE ReadDirFiles(_, _)
ReadDirFiles(o, entries) ==
    IF entries = <<>> THEN <<>>
    ELSE LET e == Head(entries)
             rest == ReadDirFiles(o, Tail(entries))
         IN  IF ~AnyExcludeMatches(o, e.path)
             THEN rest
             ELSE <<FlistEntry(0, e.path, e.kind = "dir")>> \o rest

\* files.iter().zip(0..): entry k (from 0) is sent and retained with index k
Reindex(files) == [k \in 1..Len(files) |-> [files[k] EXCEPT !.index = k - 1]]

-----------------------------------------------------------------------------
(* Messages and frames                                                       *)

MsgSYNC == <<"SYNC">>
MsgACK == <<"ACK">>
MsgNACK == <<"NACK">>
MsgDone == <<"Done">>
MsgFlistEnd == <<"FlistEnd">>
MsgIoTimeout == <<"IoTimeout">>
MsgArguments(o) == <<"Arguments", o>>
MsgFlistEntry(e) == <<"FlistEntry", e>>
MsgFileIndex(i) == <<"FileIndex", i>>
MsgRedo(i) == <<"Redo", i>>
MsgStats(b) == <<"Stats", b>>
MsgData(file_index, map) == <<"Data", [file_index |-> file_index, map |-> map]>>
MsgError(e) == <<"Error", e>>
FatalError(s) == <<"FatalError", s>>
Tag(m) == m[1]

\* a frame whose body does not decode to a Message
Garbage == <<"#undecodable">>

\* pipeline::Error
ErrIO == <<"IO">>
ErrDecoding == <<"Decoding">>
ErrNack == <<"Nack">>
ErrIoTimeout == <<"IoTimeout">>
ErrUnexpectedMessage(m) == <<"UnexpectedMessage", m>>

\* PipelineState
Disconnected == <<"Disconnected">>
Connecting == <<"Connecting">>
Connected == <<"Connected">>
ErrorState(e) == <<"Error", e>>

Unit == <<>>

BLOCK_SIZE == 128

-----------------------------------------------------------------------------
(* Tunnel: read_message on a pipe. A read waits while the pipe is empty and  *)
(* its writer lives; at end-of-file read_exact fails.                        *)

CanRead(q, writer_alive) == q # <<>> \/ ~writer_alive

ReadMessage(q) ==
    IF q = <<>> THEN Err(ErrIO)
    ELSE IF Head(q) = Garbage THEN Err(ErrDecoding)
    ELSE Ok(Head(q))

AfterRead(q) == IF q = <<>> THEN q ELSE Tail(q)

Log(who, kind, m) == IF trace.on THEN [trace EXCEPT !.ev = Append(@, <<who, kind, m>>)] ELSE trace

RECURSIVE LogAll(_, _, _, _)
LogAll(tr, who, kind, ms) ==
    IF ms = <<>> \/ ~tr.on THEN tr
    ELSE LogAll([tr EXCEPT !.ev = Append(@, <<who, kind, Head(ms)>>)], who, kind, Tail(ms))

NewOp(name) ==
    [name |-> name, wrote |-> <<>>, read |-> <<>>, flist0 |-> flist, connected0 |-> connected]

-----------------------------------------------------------------------------
(* Sender: the Pipeline operations. Each is cut at its reads, the only       *)
(* points where it can wait. A fragment constrains the pipes' contents, the  *)
(* Pipeline fields, pc, ret and the history; its caller constrains the rest. *)

\* self.tunnel.write_message(m).await? inside an operation: the frame goes out,
\* or the write fails because the peer is gone and the operation returns Err
WriteOrFail(name, m, then_pc) ==
    IF r_alive
    THEN /\ c2s' = Append(c2s, m)
         /\ trace' = Log("S", "w", m)
         /\ op' = [NewOp(name) EXCEPT !.wrote = <<m>>]
         /\ pc' = then_pc
         /\ ret' = Ok(Unit)
    ELSE /\ op' = NewOp(name)
         /\ ret' = Err(ErrIO)
         /\ pc' = "idle"
         /\ UNCHANGED <<c2s, trace>>

\* Pipeline::init, to its read
InitBegin ==
    /\ pc = "idle"
    /\ WriteOrFail("init", MsgSYNC, "init_read")
    /\ connected' = IF r_alive THEN Connecting ELSE connected
    /\ UNCHANGED <<s2c, flist, stats>>

\* a variant of init's match without the NACK arm
InitOutcome_Mutant(msg) ==
    CASE Tag(msg) = "ACK" -> [state |-> Connected, ret |-> Ok(Unit)]
      [] OTHER -> [state |-> ErrorState(ErrUnexpectedMessage(msg)),
                   ret |-> Err(ErrUnexpectedMessage(msg))]

\* what init makes of the message it read
InitOutcome(msg) ==
    CASE Tag(msg) = "ACK" -> [state |-> Connected, ret |-> Ok(Unit)]
      [] Tag(msg) = "NACK" -> [state |-> ErrorState(ErrNack), ret |-> Err(ErrNack)]
      [] OTHER -> [state |-> ErrorState(ErrUnexpectedMessage(msg)),
                   ret |-> Err(ErrUnexpectedMessage(msg))]

\* Pipeline::init, from its read to its return
InitRead ==
    /\ pc = "init_read"
    /\ CanRead(s2c, r_alive)
    /\ LET r == ReadMessage(s2c)
       IN  /\ s2c' = AfterRead(s2c)
           /\ pc' = "idle"
           /\ IF r.ok
              THEN /\ connected' = InitOutcome(r.val).state
                   /\ ret' = InitOutcome(r.val).ret
                   /\ trace' = Log("S", "r", r.val)
                   /\ op' = [op EXCEPT !.read = Append(@, r.val)]
              ELSE /\ ret' = r
                   /\ UNCHANGED <<connected, trace, op>>
    /\ UNCHANGED <<c2s, flist, stats>>

\* Pipeline::send_arguments
SendArguments(o) ==
    /\ pc = "idle"
    /\ WriteOrFail("send_arguments", MsgArguments(o), "idle")
    /\ UNCHANGED <<s2c, connected, flist, stats>>

\* pipeline.tunnel.write_message(m) called by main itself
TunnelWrite(m, then_pc) ==
    /\ pc = "idle"
    /\ WriteOrFail("write_message", m, then_pc)
    /\ UNCHANGED <<s2c, connected, flist, stats>>

\* Pipeline::receive_flist, to its first read
ReceiveFlistBegin ==
    /\ pc = "idle"
    /\ pc' = "flist_read"
    /\ op' = NewOp("receive_flist")
    /\ UNCHANGED <<c2s, s2c, connected, flist, stats, ret, trace>>

\* a variant of receive_flist's match that skips a message it does not expect
\* and keeps reading
FlistOutcome_Mutant(msg, fl, st) ==
    CASE Tag(msg) = "FlistEntry" ->
            [again |-> TRUE, flist |-> Append(fl, msg[2]), state |-> st, ret |-> Ok(Unit)]
      [] Tag(msg) = "FlistEnd" ->
            [again |-> FALSE, flist |-> fl, state |-> st, ret |-> Ok(Unit)]
      [] OTHER ->
            [again |-> TRUE, flist |-> fl, state |-> st, ret |-> Ok(Unit)]

\* what receive_flist makes of one message: whether it loops, and its effect
FlistOutcome(msg, fl, st) ==
    CASE Tag(msg) = "FlistEntry" ->
            [again |-> TRUE, flist |-> Append(fl, msg[2]), state |-> st, ret |-> Ok(Unit)]
      [] Tag(msg) = "FlistEnd" ->
            [again |-> FALSE, flist |-> fl, state |-> st, ret |-> Ok(Unit)]
      [] OTHER ->
            [again |-> FALSE, flist |-> fl,
             state |-> ErrorState(ErrUnexpectedMessage(msg)),
             ret |-> Err(ErrUnexpectedMessage(msg))]

\* Pipeline::receive_flist: one turn of its loop
FlistRead ==
    /\ pc = "flist_read"
    /\ CanRead(s2c, r_alive)
    /\ LET r == ReadMessage(s2c)
           o == FlistOutcome(r.val, flist, connected)
       IN  /\ s2c' = AfterRead(s2c)
           /\ IF r.ok
              THEN /\ flist' = o.flist
                   /\ connected' = o.state
                   /\ pc' = IF o.again THEN "flist_read" ELSE "idle"
                   /\ ret' = IF o.again THEN ret ELSE o.ret
                   /\ trace' = Log("S", "r", r.val)
                   /\ op' = [op EXCEPT !.read = Append(@, r.val)]
              ELSE /\ ret' = r
                   /\ pc' = "idle"
                   /\ UNCHANGED <<connected, flist, trace, op>>
    /\ UNCHANGED <<c2s, stats>>

\* Pipeline::receive_stats, to its first read: it returns at once unless Connected
ReceiveStatsBegin ==
    /\ pc = "idle"
    /\ op' = NewOp("receive_stats")
    /\ IF Tag(connected) # "Connected"
       THEN pc' = "idle" /\ ret' = Ok(Unit)
       ELSE pc' = "stats_read" /\ ret' = ret
    /\ UNCHANGED <<c2s, s2c, connected, flist, stats, trace>>

\* a variant that takes the first Stats message as the end of the statistics
\* and returns Ok
StatsOutcome_Mutant(msg, sts, st) ==
    CASE Tag(msg) = "Stats" ->
            [again |-> FALSE, stats |-> msg[2], state |-> st, ret |-> Ok(Unit)]
      [] Tag(msg) = "IoTimeout" ->
            [again |-> FALSE, stats |-> sts, state |-> ErrorState(ErrIoTimeout),
             ret |-> Err(ErrIoTimeout)]
      [] OTHER ->
            [again |-> FALSE, stats |-> sts,
             state |-> ErrorState(ErrUnexpectedMessage(msg)),
             ret |-> Err(ErrUnexpectedMessage(msg))]

\* what receive_stats makes of one message
StatsOutcome(msg, sts, st) ==
    CASE Tag(msg) = "Stats" ->
            [again |-> TRUE, stats |-> msg[2], state |-> st, ret |-> Ok(Unit)]
      [] Tag(msg) = "IoTimeout" ->
            [again |-> FALSE, stats |-> sts, state |-> ErrorState(ErrIoTimeout),
             ret |-> Err(ErrIoTimeout)]
      [] OTHER ->
            [again |-> FALSE, stats |-> sts,
             state |-> ErrorState(ErrUnexpectedMessage(msg)),
             ret |-> Err(ErrUnexpectedMessage(msg))]

\* Pipeline::receive_stats: one turn of its loop
StatsRead ==
    /\ pc = "stats_read"
    /\ CanRead(s2c, r_alive)
    /\ LET r == ReadMessage(s2c)
           o == StatsOutcome(r.val, stats, connected)
       IN  /\ s2c' = AfterRead(s2c)
           /\ IF r.ok
              THEN /\ stats' = o.stats
                   /\ connected' = o.state
                   /\ pc' = IF o.again THEN "stats_read" ELSE "idle"
                   /\ ret' = IF o.again THEN ret ELSE o.ret
                   /\ trace' = Log("S", "r", r.val)
                   /\ op' = [op EXCEPT !.read = Append(@, r.val)]
              ELSE /\ ret' = r
                   /\ pc' = "idle"
                   /\ UNCHANGED <<connected, stats, trace, op>>
    /\ UNCHANGED <<c2s, flist>>

-----------------------------------------------------------------------------
(* Sender: main in client mode                                               *)

\* the raw `to` argument user@host:<remote_path> read as a path: its first
\* component carries the user@host: text
WithHost(c) ==
    CASE c = "dst" -> "user@host:dst"
      [] c = "gone" -> "user@host:gone"
      [] OTHER -> c

RawTo(remote_path) == <<WithHost(Head(remote_path))>> \o Tail(remote_path)

\* Cli as parsed for remote path rp
Cli(from, rp, recursive, exclude) ==
    [from |-> from, to |-> RawTo(rp), remote_path |-> rp,
     recursive |-> recursive, exclude |-> exclude]

\* opts = ClientServerOpts { to: PathBuf::from(remote_path), ..(&cli).into() }
OptsOf(c) == ClientServerOpts(c.remote_path, c.recursive, c.exclude)

\* Path::strip_prefix
StripPrefix(path, prefix) ==
    IF IsPrefix(prefix, path)
    THEN Ok(SubSeq(path, Len(prefix) + 1, Len(path)))
    ELSE Err(<<"StripPrefixError">>)

\* the local path main opens for an entry's filename
LocalPath(filename, c) ==
    LET r == StripPrefix(filename, c.to)
    IN  IF r.ok THEN c.from \o r.val ELSE filename

Missing == [state |-> "missing", bytes |-> <<>>]
Unreadable == [state |-> "unreadable", bytes |-> <<>>]
Readable(bytes) == [state |-> "ok", bytes |-> bytes]

FileAt(fs, p) == IF p \in DOMAIN fs THEN fs[p] ELSE Missing

\* the body of `if let Message::Data(data) = msg`: what it prints and whether
\* main goes on (File::open failing continues; read_to_end failing returns Err)
ProcessData(entry, data, c, fs) ==
    LET f == FileAt(fs, LocalPath(entry.filename, c))
    IN  IF f.state = "missing"
        THEN [ret |-> Ok(Unit), print |-> <<<<"error opening file", entry>>>>]
        ELSE IF f.state = "unreadable"
        THEN [ret |-> Err(ErrIO), print |-> <<>>]
        ELSE [ret |-> Ok(Unit),
              print |-> <<<<"delta", DiffAgainst(data.map, f.bytes, BLOCK_SIZE)>>>>]

\* what main does with the reply to a FileIndex
ReplyOutcome(msg, entry, c, fs) ==
    IF Tag(msg) = "Data"
    THEN ProcessData(entry, msg[2], c, fs)
    ELSE [ret |-> Ok(Unit), print |-> <<>>]

SenderFrame == UNCHANGED <<cli, lfs, r_alive, rvars, dvars, budget, calls>>

\* pipeline.init().await?
MainInit ==
    /\ step = "init"
    /\ InitBegin
    /\ step' = "args"
    /\ UNCHANGED <<idx, printed, s_alive>>
    /\ SenderFrame

\* pipeline.send_arguments(opts).await?
MainArguments ==
    /\ step = "args" /\ ret.ok
    /\ SendArguments(OptsOf(cli))
    /\ step' = "ack"
    /\ UNCHANGED <<idx, printed, s_alive>>
    /\ SenderFrame

\* pipeline.tunnel.write_message(Message::ACK).await?
MainAck ==
    /\ step = "ack" /\ ret.ok
    /\ TunnelWrite(MsgACK, "idle")
    /\ step' = "flist"
    /\ UNCHANGED <<idx, printed, s_alive>>
    /\ SenderFrame

\* pipeline.receive_flist().await?
MainReceiveFlist ==
    /\ step = "flist" /\ ret.ok
    /\ ReceiveFlistBegin
    /\ step' = "loop"
    /\ UNCHANGED <<idx, printed, s_alive>>
    /\ SenderFrame

\* a variant of the per-file loop that writes the next FileIndex without
\* reading the reply to the one before
MainLoopWrite_Mutant ==
    /\ step = "loop" /\ ret.ok
    /\ idx < Len(flist)
    /\ TunnelWrite(MsgFileIndex(flist[idx + 1].index), "idle")
    /\ printed' = Append(printed, <<"entry", flist[idx + 1]>>)
    /\ idx' = idx + 1
    /\ UNCHANGED <<step, s_alive>>
    /\ SenderFrame

\* the per-file loop, from the head of an iteration to its read
MainLoopWrite ==
    /\ step = "loop" /\ ret.ok
    /\ idx < Len(flist)
    /\ TunnelWrite(MsgFileIndex(flist[idx + 1].index), "loop_read")
    /\ printed' = Append(printed, <<"entry", flist[idx + 1]>>)
    /\ UNCHANGED <<step, idx, s_alive>>
    /\ SenderFrame

\* the per-file loop, from its read to the end of the iteration
MainLoopRead ==
    /\ pc = "loop_read"
    /\ CanRead(s2c, r_alive)
    /\ LET r == ReadMessage(s2c)
           o == ReplyOutcome(r.val, flist[idx + 1], cli, lfs)
       IN  /\ s2c' = AfterRead(s2c)
           /\ pc' = "idle"
           /\ IF r.ok
              THEN /\ ret' = o.ret
                   /\ printed' = printed \o o.print
                   /\ idx' = idx + 1
                   /\ trace' = Log("S", "r", r.val)
                   /\ op' = [op EXCEPT !.read = Append(@, r.val)]
              ELSE /\ ret' = r
                   /\ UNCHANGED <<printed, idx, trace, op>>
    /\ UNCHANGED <<c2s, connected, flist, stats, step, s_alive>>
    /\ SenderFrame

\* a variant whose loop body ends in break: main returns after the first entry
MainExitOk_Mutant ==
    /\ step = "loop" /\ pc = "idle" /\ ret.ok
    /\ (idx >= 1 \/ idx >= Len(flist))
    /\ step' = "exit"
    /\ s_alive' = FALSE
    /\ UNCHANGED <<c2s, s2c, connected, flist, stats, pc, ret, idx, printed, trace, op>>
    /\ SenderFrame

\* the loop is over: main returns Ok(()) and the tunnel is dropped
MainExitOk ==
    /\ step = "loop" /\ pc = "idle" /\ ret.ok
    /\ idx >= Len(flist)
    /\ step' = "exit"
    /\ s_alive' = FALSE
    /\ UNCHANGED <<c2s, s2c, connected, flist, stats, pc, ret, idx, printed, trace, op>>
    /\ SenderFrame

\* a `?` in main took an Err: main returns it and the tunnel is dropped
MainExitErr ==
    /\ step \in {"args", "ack", "flist", "loop"} /\ pc = "idle" /\ ~ret.ok
    /\ step' = "exit"
    /\ s_alive' = FALSE
    /\ UNCHANGED <<c2s, s2c, connected, flist, stats, pc, ret, idx, printed, trace, op>>
    /\ SenderFrame

\* the reads of init and receive_flist, as main's steps
MainInitRead ==
    /\ InitRead
    /\ UNCHANGED <<step, idx, printed, s_alive>>
    /\ SenderFrame

MainFlistRead ==
    /\ FlistRead
    /\ UNCHANGED <<step, idx, printed, s_alive>>
    /\ SenderFrame

-----------------------------------------------------------------------------
(* Receiver: main in server mode                                             *)

Stay(writes, fl, o) == [writes |-> writes, flist |-> fl, opts |-> o, exit |-> "running"]
Leave(how, fl, o) == [writes |-> <<>>, flist |-> fl, opts |-> o, exit |-> how]

\* Message::ACK: enumerate, send each entry with its index and retain it, send
\* FlistEnd; a read_dir error returns from main
HandleAck(fl, o) ==
    LET dir == ReadDir(o.to)
        files == IF o.recursive THEN WalkFiles(o) ELSE ReadDirFiles(o, dir.val)
        indexed == Reindex(files)
    IN  IF ~o.recursive /\ ~dir.ok
        THEN Leave("err", fl, o)
        ELSE Stay([k \in 1..Len(indexed) |-> MsgFlistEntry(indexed[k])] \o <<MsgFlistEnd>>,
                  fl \o indexed, o)

\* a variant of the FileIndex handler that builds the table and sends no reply
HandleFileIndex_Mutant(index, fl, o, fs) ==
    IF index >= Len(fl)
    THEN Leave("panic", fl, o)
    ELSE LET file == fl[index + 1]
             f == FileAt(fs, file.filename)
         IN  IF f.state # "ok"
             THEN Leave("err", fl, o)
             ELSE Stay(<<>>, fl, o)

\* Message::FileIndex(index): flist[index] panics out of range; an open or read
\* error returns from main; otherwise the file's index table goes back
HandleFileIndex(index, fl, o, fs) ==
    IF index >= Len(fl)
    THEN Leave("panic", fl, o)
    ELSE LET file == fl[index + 1]
             f == FileAt(fs, file.filename)
         IN  IF f.state # "ok"
             THEN Leave("err", fl, o)
             ELSE Stay(<<MsgData(index, BuildIndexTable(f.bytes, BLOCK_SIZE))>>, fl, o)

\* a variant of the server's match that enumerates as soon as the arguments
\* arrive, without waiting for the ACK
ServerHandle_Mutant(msg, fl, o, fs) ==
    CASE Tag(msg) = "SYNC" -> Stay(<<MsgACK>>, fl, o)
      [] Tag(msg) = "ACK" -> Stay(<<>>, fl, o)
      [] Tag(msg) = "Arguments" -> HandleAck(fl, msg[2])
      [] Tag(msg) = "FileIndex" -> HandleFileIndex(msg[2], fl, o, fs)
      [] OTHER -> Stay(<<MsgError(FatalError("Unknown message received"))>>, fl, o)

\* a variant of the server's match whose default arm answers with NACK
ServerHandle_NackMutant(msg, fl, o, fs) ==
    CASE Tag(msg) = "SYNC" -> Stay(<<MsgACK>>, fl, o)
      [] Tag(msg) = "ACK" -> HandleAck(fl, o)
      [] Tag(msg) = "Arguments" -> Stay(<<>>, fl, msg[2])
      [] Tag(msg) = "FileIndex" -> HandleFileIndex(msg[2], fl, o, fs)
      [] OTHER -> Stay(<<MsgNACK>>, fl, o)

\* a variant of the server's match whose Arguments arm logs the options and
\* does not store them
ServerHandle_ArgsMutant(msg, fl, o, fs) ==
    CASE Tag(msg) = "SYNC" -> Stay(<<MsgACK>>, fl, o)
      [] Tag(msg) = "ACK" -> HandleAck(fl, o)
      [] Tag(msg) = "Arguments" -> Stay(<<>>, fl, o)
      [] Tag(msg) = "FileIndex" -> HandleFileIndex(msg[2], fl, o, fs)
      [] OTHER -> Stay(<<MsgError(FatalError("Unknown message received"))>>, fl, o)

\* a variant of the server's match that returns from main once the file list
\* is written
ServerHandle_LeaveMutant(msg, fl, o, fs) ==
    CASE Tag(msg) = "SYNC" -> Stay(<<MsgACK>>, fl, o)
      [] Tag(msg) = "ACK" -> [HandleAck(fl, o) EXCEPT !.exit = "done"]
      [] Tag(msg) = "Arguments" -> Stay(<<>>, fl, msg[2])
      [] Tag(msg) = "FileIndex" -> HandleFileIndex(msg[2], fl, o, fs)
      [] OTHER -> Stay(<<MsgError(FatalError("Unknown message received"))>>, fl, o)

\* the match of the server loop
ServerHandle(msg, fl, o, fs) ==
    CASE Tag(msg) = "SYNC" -> Stay(<<MsgACK>>, fl, o)
      [] Tag(msg) = "ACK" -> HandleAck(fl, o)
      [] Tag(msg) = "Arguments" -> Stay(<<>>, fl, msg[2])
      [] Tag(msg) = "FileIndex" -> HandleFileIndex(msg[2], fl, o, fs)
      [] OTHER -> Stay(<<MsgError(FatalError("Unknown message received"))>>, fl, o)

\* one turn of the server loop: read a message and handle it. A failed read or
\* write returns from main; the first write of a handler comes before any change
\* to flist, so a handler that cannot write leaves the state as it was.
ServerTurn ==
    /\ r_alive
    /\ CanRead(c2s, s_alive)
    /\ LET r == ReadMessage(c2s)
           h == ServerHandle(r.val, r_flist, r_opts, rfs)
       IN  /\ c2s' = AfterRead(c2s)
           /\ IF ~r.ok
              THEN /\ r_exit' = (IF r.val = ErrIO THEN "eof" ELSE "decode")
                   /\ r_alive' = FALSE
                   /\ UNCHANGED <<s2c, r_flist, r_opts, trace>>
              ELSE IF h.writes # <<>> /\ ~s_alive
              THEN /\ r_exit' = "write"
                   /\ r_alive' = FALSE
                   /\ trace' = Log("R", "r", r.val)
                   /\ UNCHANGED <<s2c, r_flist, r_opts>>
              ELSE /\ s2c' = s2c \o h.writes
                   /\ r_flist' = h.flist
                   /\ r_opts' = h.opts
                   /\ r_exit' = h.exit
                   /\ r_alive' = (h.exit = "running")
                   /\ trace' = LogAll(Log("R", "r", r.val), "R", "w", h.writes)
    /\ UNCHANGED <<s_alive, svars, rfs, op, budget, calls, dvars>>

-----------------------------------------------------------------------------
(* An arbitrary peer at the other end of the sender's tunnel                 *)

EntryX == FlistEntry(0, FileA, FALSE)
EntryY == FlistEntry(5, FileB, FALSE)

PeerFrames ==
    {MsgACK, MsgNACK, MsgFlistEnd, MsgFlistEntry(EntryX), MsgFlistEntry(EntryY),
     MsgData(0, BuildIndexTable(<<1>>, BLOCK_SIZE)), MsgRedo(0),
     MsgError(FatalError("Unknown message received")),
     MsgStats(<<7>>), MsgStats(<<8, 9>>), MsgIoTimeout, Garbage}

\* the peer sends a frame while the sender waits for one
PeerSend ==
    /\ r_alive /\ budget > 0
    /\ pc # "idle" /\ s2c = <<>>
    /\ \E f \in PeerFrames : s2c' = <<f>>
    /\ budget' = budget - 1
    /\ UNCHANGED <<c2s, s_alive, r_alive, svars, rvars, trace, op, calls, dvars>>

\* the peer goes away
PeerClose ==
    /\ r_alive
    /\ r_alive' = FALSE
    /\ r_exit' = "closed"
    /\ UNCHANGED <<c2s, s2c, s_alive, svars, r_flist, r_opts, rfs, hvars, dvars>>

-----------------------------------------------------------------------------
(* The Pipeline operations called by an arbitrary caller, in any order       *)

FreeFrame ==
    /\ step = "free" /\ calls < MaxCalls
    /\ calls' = calls + 1
    /\ UNCHANGED <<step, idx, printed, s_alive, cli, lfs, r_alive, rvars, dvars, budget>>

CallInit == InitBegin /\ FreeFrame

CallSendArguments == SendArguments(OptsOf(cli)) /\ FreeFrame

CallReceiveFlist == ReceiveFlistBegin /\ FreeFrame

CallReceiveStats == ReceiveStatsBegin /\ FreeFrame

StatsReadStep ==
    /\ StatsRead
    /\ UNCHANGED <<step, idx, printed, s_alive>>
    /\ SenderFrame

-----------------------------------------------------------------------------
(* Initial states                                                            *)

NoResult == Err(<<"none">>)

\* no WeakSignatureBlock computed yet
NoSig == <<"none">>

\* a pipe nothing was written to: its bytes, the bytes of the frame its writer
\* has still to write, whether the writer holds it open, the messages written
\* and the results read, and the body length the reader waits for (-1: none)
NoWire ==
    [bytes |-> <<>>, pending |-> <<>>, open |-> TRUE, sent |-> <<>>, got |-> <<>>, rlen |-> -1]

NoTable == [map |-> <<>>, adds |-> <<>>, finds |-> <<>>]

SignOff ==
    /\ soff = 0 /\ sprev = NoSig /\ snext = NoSig /\ built = <<>> /\ wire = NoWire
    /\ itable = NoTable

DeltaOff ==
    /\ base = <<>> /\ new = <<>> /\ bsize = 1
    /\ delta = <<>> /\ out = NoResult /\ dphase = "off"
    /\ SignOff

ExcludeChoices == {<<>>, <<<<"a">>>>, <<Root>>}

CliChoices ==
    {Cli(<<"src">>, rp, rec, ex) :
        rp \in {Root, Gone}, rec \in BOOLEAN, ex \in ExcludeChoices}

\* a file of two blocks: zeros, but for the first byte of the second block
TwoBlocks == [k \in 1..(2 * BLOCK_SIZE) |-> IF k = BLOCK_SIZE + 1 THEN 1 ELSE 0]

\* a file of one block of zeros, the first block of TwoBlocks
OneBlock == [k \in 1..BLOCK_SIZE |-> 0]

\* the sender's local files, at the paths the receiver's entries name
LocalChoices ==
    {(FileA :> a) @@ (FileB :> b) @@ (DirSub :> d) :
        a \in {Missing, Unreadable, Readable(<<>>), Readable(<<1, 2>>), Readable(OneBlock)},
        b \in {Missing, Readable(<<3>>)},
        d \in {Missing, Unreadable}}

\* the receiver's files; reading a directory fails
RemoteChoices ==
    {(FileA :> a) @@ (FileB :> b) @@ (DirSub :> Unreadable) :
        a \in {Unreadable, Readable(<<>>), Readable(<<1, 2>>), Readable(TwoBlocks)},
        b \in {Unreadable, Readable(<<3>>)}}

\* Pipeline::new and the server's locals before its loop
PeersInit ==
    /\ c2s = <<>> /\ s2c = <<>>
    /\ s_alive = TRUE /\ r_alive = TRUE
    /\ connected = Disconnected
    /\ flist = <<>> /\ stats = <<>>
    /\ pc = "idle" /\ ret = Ok(Unit)
    /\ idx = 0 /\ printed = <<>>
    /\ r_flist = <<>> /\ r_opts = DefaultOpts /\ r_exit = "running"
    /\ op = NewOp("new")
    /\ calls = 0

SessionOff ==
    /\ PeersInit
    /\ step = "off" /\ budget = 0
    /\ cli = Cli(<<"src">>, Root, FALSE, <<>>)
    /\ lfs = <<>> /\ rfs = <<>>
    /\ trace = [on |-> FALSE, ev |-> <<>>]

-----------------------------------------------------------------------------
(* Spec: one session, the sender's main against the receiver's loop          *)

Init ==
    /\ DeltaOff
    /\ PeersInit
    /\ step = "init" /\ budget = 0
    /\ cli \in CliChoices
    /\ lfs \in LocalChoices
    /\ rfs \in RemoteChoices
    /\ trace = [on |-> TRUE, ev |-> <<>>]

SenderNext ==
    \/ MainInit
    \/ MainInitRead
    \/ MainArguments
    \/ MainAck
    \/ MainReceiveFlist
    \/ MainFlistRead
    \/ MainLoopWrite
    \/ MainLoopRead
    \/ MainExitOk
    \/ MainExitErr

Next == SenderNext \/ ServerTurn

Spec == Init /\ [][Next]_vars

-----------------------------------------------------------------------------
(* SpecSender: the sender's main against an arbitrary peer                   *)

SenderInit ==
    /\ DeltaOff
    /\ PeersInit
    /\ step = "init" /\ budget = MaxFrames
    /\ cli = Cli(<<"src">>, Root, TRUE, <<>>)
    /\ lfs \in LocalChoices
    /\ rfs = <<>>
    /\ trace = [on |-> FALSE, ev |-> <<>>]

SenderPeerNext == SenderNext \/ PeerSend \/ PeerClose

SpecSender == SenderInit /\ [][SenderPeerNext]_vars

-----------------------------------------------------------------------------
(* SpecPipeline: the Pipeline operations in any order, arbitrary peer        *)

PipelineInit ==
    /\ DeltaOff
    /\ PeersInit
    /\ step = "free" /\ budget = MaxFrames
    /\ cli = Cli(<<"src">>, Root, TRUE, <<>>)
    /\ lfs = <<>> /\ rfs = <<>>
    /\ trace = [on |-> FALSE, ev |-> <<>>]

PipelineNext ==
    \/ CallInit
    \/ CallSendArguments
    \/ CallReceiveFlist
    \/ CallReceiveStats
    \/ MainInitRead
    \/ MainFlistRead
    \/ StatsReadStep
    \/ PeerSend
    \/ PeerClose

SpecPipeline == PipelineInit /\ [][PipelineNext]_vars

-----------------------------------------------------------------------------
(* SpecDelta: diff then apply, on every base, new and block size in bounds   *)

DeltaInit ==
    /\ SessionOff
    /\ base \in SeqsUpTo(Byte, MaxLen)
    /\ new \in SeqsUpTo(Byte, MaxLen)
    /\ bsize \in 1..MaxBlock
    /\ delta = <<>>
    /\ out = NoResult
    /\ dphase = "input"
    /\ SignOff

DeltaFrame == UNCHANGED <<pipes, svars, rvars, hvars, soff, sprev, snext, built, wire, itable>>

DoDiff ==
    /\ dphase = "input"
    /\ delta' = Diff(base, new, bsize)
    /\ dphase' = "diffed"
    /\ UNCHANGED <<base, new, bsize, out>>
    /\ DeltaFrame

DoApply ==
    /\ dphase = "diffed"
    /\ \E build \in Builds : out' = Apply(delta, base, bsize, build)
    /\ dphase' = "applied"
    /\ UNCHANGED <<base, new, bsize, delta>>
    /\ DeltaFrame

DeltaNext == DoDiff \/ DoApply

SpecDelta == DeltaInit /\ [][DeltaNext]_vars

-----------------------------------------------------------------------------
(* History read back from the trace                                          *)

Events == trace.ev

RECURSIVE MsgsOf(_, _, _)
MsgsOf(ev, who, kind) ==
    IF ev = <<>> THEN <<>>
    ELSE LET e == Head(ev)
             rest == MsgsOf(Tail(ev), who, kind)
         IN  IF e[1] = who /\ e[2] = kind THEN <<e[3]>> \o rest ELSE rest

RECURSIVE WithTag(_, _)
WithTag(ms, tag) ==
    IF ms = <<>> THEN <<>>
    ELSE IF Tag(Head(ms)) = tag THEN <<Head(ms)>> \o WithTag(Tail(ms), tag)
    ELSE WithTag(Tail(ms), tag)

SenderWrote == MsgsOf(Events, "S", "w")
SenderRead == MsgsOf(Events, "S", "r")
FileIndexWritten == WithTag(SenderWrote, "FileIndex")
DataRead == WithTag(SenderRead, "Data")

IsEvent(e, who, kind, tag) == e[1] = who /\ e[2] = kind /\ Tag(e[3]) = tag

\* how many events of ev[from..to] are (who, kind)
CountBetween(ev, from, to, who, kind) ==
    Cardinality({k \in from..to : ev[k][1] = who /\ ev[k][2] = kind})

Returned(name) == pc = "idle" /\ op.name = name

-----------------------------------------------------------------------------
(* Claims                                                                    *)

\* C1: for every base, new and block size B > 0, applying diff(base, new, B) to
\* base succeeds and returns exactly new
C1_RoundTrip ==
    dphase = "applied" => (out.ok /\ out.val = new)

\* a round trip whose delta mixes a literal and a copied block
C1_Witness ==
    /\ dphase = "applied"
    /\ out.ok /\ out.val = new
    /\ \E k \in 1..Len(delta) : IsIndex(delta[k]) /\ delta[k][2] > 0
    /\ \E k \in 1..Len(delta) : IsBlock(delta[k])

\* C2: Pipeline::init writes SYNC, sets the state to Connecting and reads exactly
\* one message; it ends Connected with Ok on ACK, Error(Nack) with Err(Nack) on
\* NACK, and Error(UnexpectedMessage(m)) with Err(UnexpectedMessage(m)) on any
\* other message m
C2_Init ==
    /\ pc = "init_read" =>
          /\ op.name = "init" /\ op.wrote = <<MsgSYNC>> /\ op.read = <<>>
          /\ connected = Connecting
    /\ (Returned("init") /\ op.wrote # <<>> /\ ret.ok) => Len(op.read) = 1
    /\ (Returned("init") /\ op.read # <<>>) =>
          /\ op.wrote = <<MsgSYNC>>
          /\ Len(op.read) = 1
          /\ LET m == op.read[1]
             IN  /\ m = MsgACK => (connected = Connected /\ ret = Ok(Unit))
                 /\ m = MsgNACK =>
                       (connected = ErrorState(ErrNack) /\ ret = Err(ErrNack))
                 /\ (m # MsgACK /\ m # MsgNACK) =>
                       /\ connected = ErrorState(ErrUnexpectedMessage(m))
                       /\ ret = Err(ErrUnexpectedMessage(m))

\* init has returned Err(Nack) after reading NACK
C2_Witness ==
    /\ Returned("init") /\ op.read = <<MsgNACK>>
    /\ connected = ErrorState(ErrNack) /\ ret = Err(ErrNack)

EntriesOf(ms) == [k \in 1..Len(ms) |-> ms[k][2]]
AllEntries(ms) == \A k \in 1..Len(ms) : Tag(ms[k]) = "FlistEntry"
Front(s) == SubSeq(s, 1, Len(s) - 1)
Last(s) == s[Len(s)]

\* C3: receive_flist returns Ok exactly when it reads FlistEnd, the file list
\* then being its earlier content followed by the payloads of the FlistEntry
\* messages read, in order; at the first message that is neither it sets the
\* state to Error and returns Err(UnexpectedMessage) without reading further
C3_ReceiveFlist ==
    /\ pc = "flist_read" =>
          /\ AllEntries(op.read)
          /\ flist = op.flist0 \o EntriesOf(op.read)
    /\ Returned("receive_flist") =>
          /\ AllEntries(Front(op.read))
          /\ ret.ok <=> (op.read # <<>> /\ Last(op.read) = MsgFlistEnd)
          /\ ret.ok => flist = op.flist0 \o EntriesOf(Front(op.read))
          /\ (op.read # <<>> /\ Tag(Last(op.read)) \notin {"FlistEntry", "FlistEnd"}) =>
                /\ connected = ErrorState(ErrUnexpectedMessage(Last(op.read)))
                /\ ret = Err(ErrUnexpectedMessage(Last(op.read)))
                /\ flist = op.flist0 \o EntriesOf(Front(op.read))

\* a second receive_flist has appended two entries to a non-empty list
C3_Witness ==
    /\ Returned("receive_flist") /\ ret.ok
    /\ op.flist0 # <<>>
    /\ Len(op.read) = 3
    /\ flist = op.flist0 \o <<op.read[1][2], op.read[2][2]>>

\* C4: the sender writes FileIndex(entry.index) once for every entry of the
\* received file list, in the order received, each after one reply to the one
\* before, also when an entry's local file cannot be opened or is short
C4_FileIndexPerEntry ==
    LET w == FileIndexWritten
        ev == Events
        at == {k \in 1..Len(ev) : IsEvent(ev[k], "S", "w", "FileIndex")}
    IN  /\ Len(w) <= Len(flist)
        /\ \A k \in 1..Len(w) : w[k] = MsgFileIndex(flist[k].index)
        /\ (step = "exit" /\ ret.ok) => Len(w) = Len(flist)
        /\ \A p \in at : \A q \in at :
              (p < q /\ \A k \in (p + 1)..(q - 1) : k \notin at) =>
                  CountBetween(ev, p, q, "S", "r") = 1

\* a finished session of two entries, the first with no local file and the
\* second with a local file shorter than a block
C4_Witness ==
    /\ step = "exit" /\ ret.ok
    /\ Len(flist) = 2 /\ Len(FileIndexWritten) = 2
    /\ FileAt(lfs, LocalPath(flist[1].filename, cli)).state = "missing"
    /\ FileAt(lfs, LocalPath(flist[2].filename, cli)) = Readable(<<3>>)

\* C5: the receiver writes a FlistEntry only after reading the sender's ACK, the
\* sender writes a FileIndex only after reading FlistEnd, and each
\* Data{file_index = i} is written only after the receiver read its FileIndex(i)
C5_HappensBefore ==
    LET ev == Events
    IN  \A k \in 1..Len(ev) :
          /\ IsEvent(ev[k], "R", "w", "FlistEntry") =>
                \E j \in 1..(k - 1) : ev[j] = <<"R", "r", MsgACK>>
          /\ IsEvent(ev[k], "S", "w", "FileIndex") =>
                \E j \in 1..(k - 1) : ev[j] = <<"S", "r", MsgFlistEnd>>
          /\ IsEvent(ev[k], "R", "w", "Data") =>
                LET i == ev[k][3][2].file_index
                    asked == {j \in 1..(k - 1) : ev[j] = <<"R", "r", MsgFileIndex(i)>>}
                    answered == {j \in 1..k : /\ IsEvent(ev[j], "R", "w", "Data")
                                              /\ ev[j][3][2].file_index = i}
                IN  Cardinality(answered) <= Cardinality(asked)

\* a session in which two FileIndex requests were answered
C5_Witness ==
    /\ Len(DataRead) = 2
    /\ Len(WithTag(SenderRead, "FlistEntry")) = 2

\* C6: once Connected, a message other than the expected one, read in the
\* file-list drain or in the per-file loop, moves the pipeline to
\* Error(UnexpectedMessage) and ends the session with that error
C6_UnexpectedEndsSession ==
    [][ (/\ Tag(connected) = "Connected"
         /\ pc \in {"flist_read", "loop_read"}
         /\ s2c # <<>> /\ s2c' = Tail(s2c) /\ Head(s2c) # Garbage
         /\ \/ pc = "flist_read" /\ Tag(Head(s2c)) \notin {"FlistEntry", "FlistEnd"}
            \/ pc = "loop_read" /\ Tag(Head(s2c)) # "Data")
        => (/\ connected' = ErrorState(ErrUnexpectedMessage(Head(s2c)))
            /\ ret' = Err(ErrUnexpectedMessage(Head(s2c)))) ]_vars

\* C7: whenever init, send_arguments, receive_flist or receive_stats returns an
\* error, the pipeline state is Error afterwards
C7_ErrLeavesErrorState ==
    (/\ pc = "idle" /\ ~ret.ok
     /\ op.name \in {"init", "send_arguments", "receive_flist", "receive_stats"})
    => Tag(connected) = "Error"

Rank(st) ==
    CASE Tag(st) = "Disconnected" -> 0
      [] Tag(st) = "Connecting" -> 1
      [] Tag(st) = "Connected" -> 2
      [] OTHER -> 3

\* C8: over any sequence of calls the state only moves forward along
\* Disconnected, Connecting, Connected, and Error once reached stays
C8_ForwardOnly ==
    [][Rank(connected') >= Rank(connected)]_vars

\* C9: in a session that handles every entry, the sender writes Done after the
\* last reply, as its last message, exactly once
C9_DoneLast ==
    (step = "exit" /\ ret.ok /\ idx = Len(flist)) =>
        /\ SenderWrote # <<>>
        /\ Last(SenderWrote) = MsgDone
        /\ Len(WithTag(SenderWrote, "Done")) = 1

\* the index table section 4.1 of the specification prescribes for a file: one
\* entry per whole block, keyed by the weak signature of that block's own window
RECURSIVE BlockAlignedFrom(_, _, _, _)
BlockAlignedFrom(data, B, i, table) ==
    IF (i + 1) * B > Len(data) THEN table
    ELSE BlockAlignedFrom(data, B, i + 1,
            TableAdd(table, Sign(data, B, i * B),
                     ComputeStrongSignature(SubSeq(data, i * B + 1, (i + 1) * B)), i))

BlockAlignedTable(data, B) ==
    IF Len(data) < B
    THEN LET w == RustRem(SumSeq(data), MODULUS)
         IN  TableAdd(EmptyTable, WeakSignatureBlock(0, Wide(0, w), w, w),
                      ComputeStrongSignature(data), 0)
    ELSE BlockAlignedFrom(data, B, 0, EmptyTable)

\* C10: for every FileIndex(i) inside the retained list whose file is readable
\* the receiver writes exactly one message, a Data with file_index = i carrying
\* the index table of the file flist[i].filename, so the k-th Data the sender
\* reads carries the index of the k-th FileIndex it wrote
C10_DataAnswersFileIndex ==
    LET ev == Events
    IN  /\ \A k \in 1..Len(DataRead) :
              DataRead[k][2].file_index = FileIndexWritten[k][2]
        /\ \A k \in 1..Len(ev) :
              (/\ IsEvent(ev[k], "R", "r", "FileIndex")
               /\ ev[k][3][2] < Len(r_flist)
               /\ FileAt(rfs, r_flist[ev[k][3][2] + 1].filename).state = "ok")
              => LET i == ev[k][3][2]
                     bytes == FileAt(rfs, r_flist[i + 1].filename).bytes
                 IN  /\ k + 1 <= Len(ev)
                     /\ ev[k + 1] = <<"R", "w", MsgData(i, BlockAlignedTable(bytes, BLOCK_SIZE))>>
                     /\ (k + 2 <= Len(ev)) => ~(ev[k + 2][1] = "R" /\ ev[k + 2][2] = "w")

-----------------------------------------------------------------------------
(* SpecReceiver: the server loop against an arbitrary client                 *)

\* the options an arbitrary client sends in Arguments
ReceiverOpts ==
    {ClientServerOpts(to, rec, ex) :
        to \in {Root, Gone}, rec \in BOOLEAN, ex \in {<<>>, <<<<"a">>>>}}

\* the frames an arbitrary client writes to the server's stdin
ClientFrames ==
    {MsgSYNC, MsgACK, MsgFileIndex(0), MsgFileIndex(2), MsgDone, MsgNACK,
     MsgFlistEnd, MsgData(0, BuildIndexTable(<<1>>, BLOCK_SIZE)), Garbage}
    \cup {MsgArguments(o) : o \in ReceiverOpts}

\* the receiver's files in this specification
ReceiverFiles ==
    {(FileA :> a) @@ (FileB :> Readable(<<3>>)) @@ (DirSub :> Unreadable) :
        a \in {Unreadable, Readable(<<1, 2>>)}}

ReceiverInit ==
    /\ DeltaOff
    /\ PeersInit
    /\ step = "off" /\ budget = MaxClientFrames
    /\ cli = Cli(<<"src">>, Root, FALSE, <<>>)
    /\ lfs = <<>>
    /\ rfs \in ReceiverFiles
    /\ trace = [on |-> TRUE, ev |-> <<>>]

\* the client writes one frame into the server's stdin
ClientSend ==
    /\ s_alive /\ budget > 0
    /\ \E f \in ClientFrames : c2s' = Append(c2s, f)
    /\ budget' = budget - 1
    /\ UNCHANGED <<s2c, s_alive, r_alive, svars, rvars, trace, op, calls, dvars>>

\* the client closes its end
ClientClose ==
    /\ s_alive
    /\ s_alive' = FALSE
    /\ UNCHANGED <<c2s, s2c, r_alive, connected, flist, stats, pc, ret, step, idx,
                   printed, cli, lfs, rvars, hvars, dvars>>

ReceiverNext == ClientSend \/ ClientClose \/ ServerTurn

SpecReceiver == ReceiverInit /\ [][ReceiverNext]_vars

\* the step in which the server, its stdout open, reads message m and handles it
ServerReads(m) ==
    /\ r_alive /\ s_alive
    /\ c2s # <<>> /\ Head(c2s) = m
    /\ c2s' = Tail(c2s)

\* what the server wrote in a step
ServerWrote == SubSeq(s2c', Len(s2c) + 1, Len(s2c'))

\* the entries an enumeration of the destination yields before any filter:
\* regular files of the walk when recursive, the directory's entries otherwise
Enumerated(o) ==
    IF o.recursive
    THEN SelectSeq(Walk(o.to), LAMBDA e : e.kind = "file")
    ELSE IF ReadDir(o.to).ok THEN ReadDir(o.to).val ELSE <<>>

\* section 4.4: an entry is kept iff no exclude path is a prefix or suffix of it
NonExcluded(o) ==
    LET kept == SelectSeq(Enumerated(o), LAMBDA e : ~AnyExcludeMatches(o, e.path))
    IN  [k \in 1..Len(kept) |-> FlistEntry(k - 1, kept[k].path, kept[k].kind = "dir")]

\* whether the destination can be enumerated at all
CanEnumerate(o) == o.recursive \/ ReadDir(o.to).ok

\* C11: on ACK the receiver writes one FlistEntry per enumerated, non-excluded
\* entry, indexed 0, 1, ..., n-1 in enumeration order, then exactly one
\* FlistEnd, and retains the entries it sent
C11_FlistProduction ==
    [][ (ServerReads(MsgACK) /\ CanEnumerate(r_opts)) =>
            LET wanted == NonExcluded(r_opts)
            IN  /\ ServerWrote =
                      [k \in 1..Len(wanted) |-> MsgFlistEntry(wanted[k])] \o <<MsgFlistEnd>>
                /\ r_flist' = r_flist \o wanted ]_vars

\* the delta of a buffer against itself that the specification prescribes: one
\* Index per whole block, in order, then the tail as one literal if non-empty
IdentityDelta(x, B) ==
    LET k == Len(x) \div B
        tail == SubSeq(x, k * B + 1, Len(x))
    IN  [j \in 1..k |-> OpIndex(j - 1)] \o (IF tail # <<>> THEN <<OpBlock(tail)>> ELSE <<>>)

\* C12: for every X with |X| >= B, Delta::diff(X, X, B) is Index(0), ...,
\* Index(k-1) for k = floor(|X|/B), followed by one literal Block holding the
\* last |X| mod B bytes only when that tail is non-empty, and no other literal
C12_DiffIdentity ==
    (dphase \in {"diffed", "applied"} /\ base = new /\ Len(base) >= bsize)
        => delta = IdentityDelta(base, bsize)

-----------------------------------------------------------------------------
(* SpecSign: sign(k), then compute_next_signature of its result              *)

\* byte values that make the sums pass MODULUS within a block of BLOCK_SIZE
SignBytes == {0, 1, 255}

SignBlocks == (1..MaxBlock) \cup {BLOCK_SIZE}

\* a buffer of L bytes: x up to position h, y after it
StepBuffer(L, h, x, y) == [i \in 1..L |-> IF i <= h THEN x ELSE y]

\* the buffers signed with block size B: every short buffer over SignBytes, and
\* the step buffers of one block and up to MaxSlide bytes more
SignBuffers(B) ==
    {s \in SeqsUpTo(SignBytes, MaxLen) : Len(s) >= B /\ Len(s) <= B + MaxSlide}
    \cup {StepBuffer(L, h, x, y) :
            L \in B..(B + MaxSlide), h \in 0..Min(B + MaxSlide, 4),
            x \in SignBytes, y \in SignBytes}

SignInit ==
    /\ SessionOff
    /\ bsize \in SignBlocks
    /\ base \in SignBuffers(bsize)
    /\ soff \in 0..(Len(base) - bsize)
    /\ new = <<>> /\ delta = <<>> /\ out = NoResult
    /\ sprev = NoSig /\ snext = NoSig /\ built = <<>> /\ wire = NoWire
    /\ itable = NoTable
    /\ dphase = "input"

SignFrame ==
    UNCHANGED <<pipes, svars, rvars, hvars, base, new, bsize, delta, out, soff, built, wire, itable>>

\* WeakSignature::new(bsize, base).sign(soff)
DoSign ==
    /\ dphase = "input"
    /\ sprev' = Sign(base, bsize, soff)
    /\ dphase' = "signed"
    /\ UNCHANGED snext
    /\ SignFrame

\* compute_next_signature(sprev)
DoRoll ==
    /\ dphase = "signed"
    /\ snext' = ComputeNextSignature(base, bsize, sprev)
    /\ dphase' = "rolled"
    /\ UNCHANGED sprev
    /\ SignFrame

SignNext == DoSign \/ DoRoll

SpecSign == SignInit /\ [][SignNext]_vars

\* C13: for every buffer, block size B >= 1 and offset k with k + 1 + B <= len,
\* compute_next_signature(sign(k)) has the offset, r1, r2 and signature of
\* sign(k + 1)
C13_RollingRecurrence ==
    (dphase = "rolled" /\ soff + 1 + bsize <= Len(base))
        => snext = Sign(base, bsize, soff + 1)

\* a roll over a block of BLOCK_SIZE bytes whose r2 passed MODULUS, where the
\* difference prev.r2 - B * old_byte + r1 is negative before it is made positive
C13_Witness ==
    /\ dphase = "rolled" /\ bsize = BLOCK_SIZE
    /\ soff + 1 + bsize <= Len(base)
    /\ sprev.r2 - bsize * base[soff + 1] + snext.r1 < 0
    /\ snext = Sign(base, bsize, soff + 1)

-----------------------------------------------------------------------------
(* SpecApply: Delta::apply on deltas built by hand, for any base and any     *)
(* block size, 0 included                                                    *)

\* the indexes 2^63 and 2^64 - 1
IndexHalf == OpIndexWide(<<32768, 0, 0, 0>>)
IndexMax == OpIndexWide(<<65535, 65535, 65535, 65535>>)

OpChoices ==
    {OpIndex(i) : i \in 0..MaxIndex} \cup {OpBlock(<<7>>), IndexHalf, IndexMax}

ApplyInit ==
    /\ SessionOff
    /\ SignOff
    /\ base \in SeqsUpTo(Byte, MaxBase)
    /\ bsize \in 0..MaxBlock
    /\ delta \in SeqsUpTo(OpChoices, MaxOps)
    /\ new = <<>>
    /\ out = NoResult
    /\ dphase = "diffed"

SpecApply == ApplyInit /\ [][DoApply]_vars

\* whether the index of op o times B, taken as a number, is at least n
IndexStartAtLeast(o, B, n) ==
    LET m == UsizeMul(IndexDigits(o), B)
    IN  m.overflow \/ UsizeAtLeast(m.val, n)

\* an Index op whose block starts at or beyond the end of the base
OutOfRange(o, b, B) == (IsIndex(o) \/ IsIndexWide(o)) /\ IndexStartAtLeast(o, B, Len(b))

\* C14: Delta::apply returns an error and no output whenever the delta holds
\* an Index(i) with i*B >= |base|, whatever ops precede or follow it; when
\* i*B < |base| < i*B + B it succeeds and copies only base[i*B..|base|)
C14_ApplyBounds ==
    dphase = "applied" =>
        /\ (\E k \in 1..Len(delta) : OutOfRange(delta[k], base, bsize))
              => out = Err(<<"InvalidData">>)
        /\ \A i \in 0..MaxIndex :
              (/\ delta = <<OpIndex(i)>>
               /\ i * bsize < Len(base) /\ Len(base) < i * bsize + bsize)
              => out = Ok(SubSeq(base, i * bsize + 1, Len(base)))

\* the bytes an op contributes: a Block's literal, an Index's block of the base
\* cut at the end of the base
RECURSIVE Pieces(_, _, _)
Pieces(ops, b, B) ==
    IF ops = <<>> THEN <<>>
    ELSE LET o == Head(ops)
             piece == IF IsBlock(o) THEN o[2]
                      ELSE IF OutOfRange(o, b, B) THEN <<>>
                      ELSE LET start == UsizeValue(UsizeMul(IndexDigits(o), B).val)
                           IN  SubSeq(b, start + 1, Min(start + B, Len(b)))
         IN  piece \o Pieces(Tail(ops), b, B)

\* C15: when Delta::apply succeeds its output is the concatenation, in op
\* order, of each Block's bytes and of base[i*B .. min(i*B + B, |base|)) for
\* each Index(i); a delta of Block ops alone yields the concatenation of its
\* literals for any base and any block size, 0 included
C15_ApplyConcat ==
    (dphase = "applied" /\ out.ok) => out.val = Pieces(delta, base, bsize)

-----------------------------------------------------------------------------
(* SpecBuilder: add_byte and add_index called in any order on a fresh Delta  *)

\* calls made on one Delta
MaxBuild == 4

BuilderInit ==
    /\ SessionOff
    /\ SignOff
    /\ base = <<>> /\ new = <<>> /\ bsize = 0
    /\ delta = <<>>
    /\ out = NoResult
    /\ dphase = "building"

BuilderFrame ==
    UNCHANGED <<pipes, svars, rvars, hvars, base, new, bsize, out, dphase, soff, sprev, snext, wire, itable>>

\* delta.add_byte(byte)
CallAddByte ==
    /\ dphase = "building" /\ Len(built) < MaxBuild
    /\ \E byte \in Byte :
          /\ delta' = AddByte(delta, byte)
          /\ built' = Append(built, <<"add_byte", byte>>)
    /\ BuilderFrame

\* delta.add_index(index)
CallAddIndex ==
    /\ dphase = "building" /\ Len(built) < MaxBuild
    /\ \E index \in 0..MaxIndex :
          /\ delta' = AddIndex(delta, index)
          /\ built' = Append(built, <<"add_index", index>>)
    /\ BuilderFrame

BuilderNext == CallAddByte \/ CallAddIndex

SpecBuilder == BuilderInit /\ [][BuilderNext]_vars

\* the bytes passed to add_byte, in call order
BytesBuilt == [k \in 1..Len(built) |-> built[k][2]]

\* C16: after one or more add_byte calls alone on a fresh Delta the delta is
\* exactly one Block holding the bytes in call order; after any interleaving
\* of add_byte and add_index no two Block ops are adjacent, and an add_byte
\* that follows an Index starts a new Block
C16_BlockCoalescence ==
    dphase = "building" =>
        /\ (built # <<>> /\ \A k \in 1..Len(built) : built[k][1] = "add_byte")
              => delta = <<OpBlock(BytesBuilt)>>
        /\ \A k \in 1..(Len(delta) - 1) : ~(IsBlock(delta[k]) /\ IsBlock(delta[k + 1]))
        /\ (/\ Len(built) >= 2
            /\ built[Len(built) - 1][1] = "add_index"
            /\ built[Len(built)][1] = "add_byte")
              => /\ Len(delta) >= 2
                 /\ delta[Len(delta)] = OpBlock(<<built[Len(built)][2]>>)
                 /\ delta[Len(delta) - 1] = OpIndex(built[Len(built) - 1][2])

\* two bytes coalesced, an Index, and a byte that opened a new Block
C16_Witness ==
    /\ dphase = "building"
    /\ built = <<<<"add_byte", 0>>, <<"add_byte", 1>>, <<"add_index", 1>>, <<"add_byte", 1>>>>
    /\ delta = <<OpBlock(<<0, 1>>), OpIndex(1), OpBlock(<<1>>)>>

-----------------------------------------------------------------------------
(* The base-side index table                                                 *)

\* table holds, for every whole block i of data, the weak signature sign(i*B)
\* of the block's own window paired with index i and the window's strong
\* signature
HoldsBlocks(table, data, B) ==
    \A i \in 0..((Len(data) \div B) - 1) :
        TableFind(table, Sign(data, B, i * B).signature)
            = Some(<<i, ComputeStrongSignature(SubSeq(data, i * B + 1, (i + 1) * B))>>)

\* C17: the index table built for a base of length >= B holds, for every i
\* with (i+1)*B <= |base|, the weak signature sign(i*B) paired with block index
\* i and that window's strong signature, in the table the receiver's FileIndex
\* handler sends and in the table Delta::diff builds
C17_BlockAlignedEntries ==
    /\ \A k \in 1..Len(Events) :
          IsEvent(Events[k], "R", "w", "Data") =>
              LET data == Events[k][3][2]
                  bytes == FileAt(rfs, r_flist[data.file_index + 1].filename).bytes
              IN  Len(bytes) >= BLOCK_SIZE => HoldsBlocks(data.map, bytes, BLOCK_SIZE)
    /\ (dphase = "diffed" /\ bsize >= 1 /\ Len(base) >= bsize)
          => HoldsBlocks(BuildIndexTable(base, bsize), base, bsize)

-----------------------------------------------------------------------------
(* The exclude filter of the receiver's enumeration                          *)

\* the paths of the FlistEntry messages the server wrote in a step
ListedPaths ==
    {ServerWrote[k][2].filename :
        k \in {j \in 1..Len(ServerWrote) : Tag(ServerWrote[j]) = "FlistEntry"}}

\* C18: in the recursive and in the non-recursive enumeration an enumerated
\* entry is listed if and only if no exclude path is a prefix or a suffix of
\* its path; with an empty exclude list every enumerated entry is listed
C18_ExcludeFilter ==
    [][ (ServerReads(MsgACK) /\ CanEnumerate(r_opts)) =>
            LET found == Enumerated(r_opts)
            IN  \A k \in 1..Len(found) :
                    (found[k].path \in ListedPaths)
                        <=> ~AnyExcludeMatches(r_opts, found[k].path) ]_vars

-----------------------------------------------------------------------------
(* Failures of the receiver's handlers                                       *)

\* handling m fails: a FileIndex outside the retained list, a listed file that
\* cannot be opened or read, a destination directory that cannot be read
HandlingFails(m) ==
    \/ /\ Tag(m) = "FileIndex"
       /\ \/ m[2] >= Len(r_flist)
          \/ FileAt(rfs, r_flist[m[2] + 1].filename).state # "ok"
    \/ /\ Tag(m) = "ACK"
       /\ ~r_opts.recursive /\ ~ReadDir(r_opts.to).ok

\* C19: when handling a message fails the receiver writes one
\* Error(FatalError(..)) to the sender and keeps serving; it does not stop
\* without a reply
C19_FailureReported ==
    [][ (\E m \in ClientFrames : ServerReads(m) /\ HandlingFails(m)) =>
            /\ Len(ServerWrote) = 1
            /\ Tag(ServerWrote[1]) = "Error"
            /\ Tag(ServerWrote[1][2]) = "FatalError"
            /\ r_alive' ]_vars

-----------------------------------------------------------------------------
(* The default arm of the server's match                                     *)

\* the messages the server's match names
Recognized == {"SYNC", "ACK", "Arguments", "FileIndex"}

\* C20: for every message other than SYNC, ACK, Arguments and FileIndex
\* (Done, NACK and Data among them) the receiver writes exactly one
\* Error(FatalError("Unknown message received")), leaves its options and its
\* file list as they were, and goes on with its loop
C20_UnknownMessage ==
    [][ (\E m \in ClientFrames :
            ServerReads(m) /\ m # Garbage /\ Tag(m) \notin Recognized) =>
            /\ ServerWrote = <<MsgError(FatalError("Unknown message received"))>>
            /\ UNCHANGED <<r_opts, r_flist>>
            /\ r_alive' /\ r_exit' = "running" ]_vars

\* the server, holding a file list and options it was sent, has read a Data
\* message, answered it with the error, and still runs
C20_Witness ==
    LET ev == Events
        n == Len(ev)
    IN  /\ n >= 2
        /\ IsEvent(ev[n - 1], "R", "r", "Data")
        /\ ev[n] = <<"R", "w", MsgError(FatalError("Unknown message received"))>>
        /\ r_alive /\ r_exit = "running"
        /\ r_flist # <<>>
        /\ r_opts.to = Root

-----------------------------------------------------------------------------
(* SpecTunnel: write_message and read_message over one pipe, byte by byte    *)

\* messages written to one pipe
MaxTunnel == 3

\* msg_len.to_be_bytes() with the bytes in little-endian order
ToBeBytes_Mutant(n) ==
    <<n % 256, (n \div 256) % 256, (n \div 65536) % 256, (n \div 16777216) % 256>>

\* msg_len.to_be_bytes(): the four bytes of a u32, most significant first
ToBeBytes(n) ==
    <<(n \div 16777216) % 256, (n \div 65536) % 256, (n \div 256) % 256, n % 256>>

\* u32::from_be_bytes(len_buf)
FromBeBytes(b) == ((b[1] * 256 + b[2]) * 256 + b[3]) * 256 + b[4]

\* the position of a variant in enum Message, which bincode writes first
VariantIndex(tag) ==
    CASE tag = "SYNC" -> 0 [] tag = "ACK" -> 1 [] tag = "NACK" -> 2
      [] tag = "Redo" -> 5 [] tag = "Done" -> 6 [] tag = "FlistEnd" -> 11
      [] tag = "Stats" -> 16 [] tag = "IoTimeout" -> 17

UnitVariants == {"SYNC", "ACK", "NACK", "Done", "FlistEnd", "IoTimeout"}

\* bincode's variable-length integer, for values below 65536: one byte below
\* 251, else the marker 251 and two bytes, least significant first
Varint(n) == IF n < 251 THEN <<n>> ELSE <<251, n % 256, n \div 256>>

\* the integer read at position at of a body, and the position after it
ReadVarint(body, at) ==
    IF at > Len(body) THEN [ok |-> FALSE, val |-> 0, next |-> at]
    ELSE IF body[at] < 251 THEN [ok |-> TRUE, val |-> body[at], next |-> at + 1]
    ELSE IF body[at] = 251 /\ at + 2 <= Len(body)
    THEN [ok |-> TRUE, val |-> body[at + 1] + 256 * body[at + 2], next |-> at + 3]
    ELSE [ok |-> FALSE, val |-> 0, next |-> at]

\* bincode::serde::encode_to_vec(msg, standard()) for the unit variants,
\* Redo(u32) and Stats(Vec<u8>)
Encode(m) ==
    IF Tag(m) \in UnitVariants THEN <<VariantIndex(Tag(m))>>
    ELSE IF Tag(m) = "Redo" THEN <<VariantIndex("Redo")>> \o Varint(m[2])
    ELSE <<VariantIndex("Stats")>> \o Varint(Len(m[2])) \o m[2]

\* bincode::serde::decode_from_slice(&buf, standard()) for the same variants;
\* bytes after the message are left unread
Decode(body) ==
    IF body = <<>> THEN Err(ErrDecoding)
    ELSE IF \E t \in UnitVariants : VariantIndex(t) = body[1]
    THEN Ok(<<CHOOSE t \in UnitVariants : VariantIndex(t) = body[1]>>)
    ELSE IF body[1] = VariantIndex("Redo")
    THEN LET n == ReadVarint(body, 2)
         IN  IF n.ok THEN Ok(MsgRedo(n.val)) ELSE Err(ErrDecoding)
    ELSE IF body[1] = VariantIndex("Stats")
    THEN LET n == ReadVarint(body, 2)
         IN  IF n.ok /\ n.next + n.val - 1 <= Len(body)
             THEN Ok(MsgStats(SubSeq(body, n.next, n.next + n.val - 1)))
             ELSE Err(ErrDecoding)
    ELSE Err(ErrDecoding)

\* the bytes write_message puts on the pipe for one message
Frame(m) == ToBeBytes(Len(Encode(m))) \o Encode(m)

\* n zero bytes: a buffer as read_message allocates it
Zeros(n) == [k \in 1..n |-> 0]

\* read_exact whose failure is dropped: the buffer keeps its zeros where no
\* byte arrived
ReadExact_Mutant(bytes, n) ==
    IF Len(bytes) >= n THEN Ok(SubSeq(bytes, 1, n))
    ELSE Ok(bytes \o Zeros(n - Len(bytes)))

\* read_exact(&mut buf).await? once it returns: the n bytes, or the error of
\* a pipe that ended before them
ReadExact(bytes, n) ==
    IF Len(bytes) >= n THEN Ok(SubSeq(bytes, 1, n)) ELSE Err(ErrIO)

\* the messages written in this specification
TunnelMessages ==
    {MsgSYNC, MsgDone, MsgFlistEnd, MsgRedo(0), MsgRedo(300),
     MsgStats(<<>>), MsgStats(<<255, 0>>)}

TunnelInit ==
    /\ SessionOff
    /\ base = <<>> /\ new = <<>> /\ bsize = 1
    /\ delta = <<>> /\ out = NoResult /\ dphase = "tunnel"
    /\ SignOff

TunnelFrame ==
    UNCHANGED <<pipes, svars, rvars, hvars, base, new, bsize, delta, out, dphase,
                soff, sprev, snext, built, itable>>

\* write_message(m) is called: the frame is ready to go out
WriteMessage ==
    /\ dphase = "tunnel"
    /\ wire.open /\ wire.pending = <<>> /\ Len(wire.sent) < MaxTunnel
    /\ \E m \in TunnelMessages :
          wire' = [wire EXCEPT !.pending = Frame(m), !.sent = Append(@, m)]
    /\ TunnelFrame

\* write_all puts some of the frame's bytes into the pipe
WriteBytes ==
    /\ dphase = "tunnel"
    /\ wire.open /\ wire.pending # <<>>
    /\ \E k \in 1..Len(wire.pending) :
          wire' = [wire EXCEPT !.bytes = @ \o SubSeq(wire.pending, 1, k),
                               !.pending = SubSeq(@, k + 1, Len(@))]
    /\ TunnelFrame

\* the writer ends, or drops its end of the pipe, wherever it is
WriterClose ==
    /\ dphase = "tunnel"
    /\ wire.open
    /\ wire' = [wire EXCEPT !.open = FALSE, !.pending = <<>>]
    /\ TunnelFrame

\* read_message to its second read: the length prefix
ReadLength ==
    /\ dphase = "tunnel"
    /\ wire.rlen = -1 /\ Len(wire.got) <= MaxTunnel
    /\ Len(wire.bytes) >= 4 \/ ~wire.open
    /\ LET len_buf == ReadExact(wire.bytes, 4)
       IN  IF len_buf.ok
           THEN wire' = [wire EXCEPT !.bytes = SubSeq(@, 5, Len(@)),
                                     !.rlen = FromBeBytes(len_buf.val)]
           ELSE wire' = [wire EXCEPT !.bytes = <<>>, !.got = Append(@, Err(ErrIO))]
    /\ TunnelFrame

\* read_message from its second read: the body, decoded
ReadBody ==
    /\ dphase = "tunnel"
    /\ wire.rlen >= 0
    /\ Len(wire.bytes) >= wire.rlen \/ ~wire.open
    /\ LET buf == ReadExact(wire.bytes, wire.rlen)
       IN  IF buf.ok
           THEN wire' = [wire EXCEPT !.bytes = SubSeq(@, wire.rlen + 1, Len(@)),
                                     !.got = Append(@, Decode(buf.val)),
                                     !.rlen = -1]
           ELSE wire' = [wire EXCEPT !.bytes = <<>>, !.got = Append(@, buf), !.rlen = -1]
    /\ TunnelFrame

TunnelNext == WriteMessage \/ WriteBytes \/ WriterClose \/ ReadLength \/ ReadBody

SpecTunnel == TunnelInit /\ [][TunnelNext]_vars

\* the messages read_message returned so far
MessagesRead ==
    LET oks == SelectSeq(wire.got, LAMBDA r : r.ok)
    IN  [k \in 1..Len(oks) |-> oks[k].val]

C22_PartialReadIsError ==
    [][ (/\ dphase = "tunnel"
         /\ Len(wire'.got) = Len(wire.got) + 1
         /\ \/ wire.rlen = -1 /\ Len(wire.bytes) < 4
            \/ wire.rlen >= 0 /\ Len(wire.bytes) < wire.rlen)
        => ~wire'.got[Len(wire'.got)].ok ]_vars

\* a message read whole, then a frame cut inside its body, read as an error
C22_Witness ==
    /\ dphase = "tunnel"
    /\ wire.sent = <<MsgDone, MsgStats(<<255, 0>>)>>
    /\ wire.got = <<Ok(MsgDone), Err(ErrIO)>>
    /\ ~wire.open /\ wire.rlen = -1

-----------------------------------------------------------------------------
(* The local path of a file-list entry                                       *)

\* section 4.3: the filename with the receiver's root, the `to` sent in
\* Arguments, replaced by the sender's `from` when the filename begins with it
RebasedPath(filename, c) ==
    LET root == OptsOf(c).to
    IN  IF IsPrefix(root, filename)
        THEN c.from \o SubSeq(filename, Len(root) + 1, Len(filename))
        ELSE filename

\* C23: for each file-list entry whose Data reply the sender has read, the
\* local path it opens is the entry's filename with the receiver's root
\* replaced by the sender's `from` root when the filename begins with that
\* root, and the filename unchanged otherwise
C23_LocalPathRebased ==
    \A k \in 1..Len(DataRead) :
        k <= Len(flist) =>
            LocalPath(flist[k].filename, cli) = RebasedPath(flist[k].filename, cli)

-----------------------------------------------------------------------------
(* Requests in flight                                                        *)

-----------------------------------------------------------------------------
(* SpecFair: the session of Spec with both processes scheduled fairly: each  *)
(* peer is a process of its own and takes its next step when it can          *)

\* the sessions of Spec whose files are shorter than a block
FairInit ==
    /\ Init
    /\ \A p \in DOMAIN lfs : Len(lfs[p].bytes) < BLOCK_SIZE
    /\ \A p \in DOMAIN rfs : Len(rfs[p].bytes) < BLOCK_SIZE

SpecFair == FairInit /\ [][Next]_vars /\ WF_vars(SenderNext) /\ WF_vars(ServerTurn)

\* every file the receiver has listed can be read
ListedReadable ==
    \A k \in 1..Len(r_flist) : FileAt(rfs, r_flist[k].filename).state = "ok"

\* both peers wait to read from an empty pipe while the sender has work left
BothWait ==
    /\ s_alive /\ r_alive
    /\ step # "exit" /\ pc # "idle"
    /\ c2s = <<>> /\ s2c = <<>>

\* the sender's main has returned
Finished == step = "exit"

\* the sender's main returned the error of reading the local file of the
\* entry whose reply it read last
LocalReadFailed ==
    /\ ret = Err(ErrIO)
    /\ DataRead # <<>> /\ Len(DataRead) <= Len(flist)
    /\ FileAt(lfs, LocalPath(flist[Len(DataRead)].filename, cli)).state = "unreadable"

\* C25 as stated: under fair scheduling, with a receiver whose listed files
\* are readable, the peers never both wait on empty pipes while the sender has
\* work, and the sender eventually finishes after one reply per file-list entry
C25_Progress ==
    /\ [](ListedReadable => ~BothWait)
    /\ <>(Finished /\ (ListedReadable => Len(DataRead) = Len(flist)))

\* C25 as amended: the same, the sender finishing after one reply per entry
\* or, earlier, with the error of reading one of its own files
C25_ProgressOrLocalError ==
    /\ [](ListedReadable => ~BothWait)
    /\ <>(Finished /\ (ListedReadable => (Len(DataRead) = Len(flist) \/ LocalReadFailed)))

\* a session of two readable entries that ended after two replies
C25_Witness ==
    /\ Finished /\ ret.ok /\ ListedReadable
    /\ Len(r_flist) = 2 /\ Len(flist) = 2 /\ Len(DataRead) = 2
    /\ c2s = <<>> /\ s2c = <<>>

-----------------------------------------------------------------------------
(* SpecDump: Delta::dump. A String is held as its UTF-8 bytes.               *)

\* core::str::from_utf8(block) succeeds: well-formed UTF-8, here for the
\* one-byte and two-byte sequences the inputs are made of
RECURSIVE Utf8ValidFrom(_, _)
Utf8ValidFrom(block, k) ==
    IF k > Len(block) THEN TRUE
    ELSE IF block[k] < 128 THEN Utf8ValidFrom(block, k + 1)
    ELSE IF /\ block[k] \in 194..223
            /\ k + 1 <= Len(block) /\ block[k + 1] \in 128..191
    THEN Utf8ValidFrom(block, k + 2)
    ELSE FALSE

\* the decimal digits of n, as "{}" formats a usize
RECURSIVE Decimal(_)
Decimal(n) == IF n < 10 THEN <<48 + n>> ELSE Decimal(n \div 10) \o <<48 + (n % 10)>>

\* write!(&mut s, "<b*{}>", index): the closing star left out
IndexText_Mutant(index) == <<60, 98, 42>> \o Decimal(index) \o <<62>>

\* write!(&mut s, "<b*{}*>", index)
IndexText(index) == <<60, 98, 42>> \o Decimal(index) \o <<42, 62>>

\* the loop of Delta::dump over ops[k..], s being the String so far
RECURSIVE DumpFrom(_, _, _)
DumpFrom(ops, k, s) ==
    IF k > Len(ops) THEN Ok(s)
    ELSE LET o == ops[k]
         IN  IF IsIndex(o) THEN DumpFrom(ops, k + 1, s \o IndexText(o[2]))
             ELSE IF Utf8ValidFrom(o[2], 1) THEN DumpFrom(ops, k + 1, s \o o[2])
             ELSE Panicked

\* Delta::dump
Dump(ops) == DumpFrom(ops, 1, <<>>)

\* the ops of the deltas dumped: "abc", "é", an empty block, a block that is
\* no UTF-8, and indexes of one and two digits
DumpOps ==
    {OpBlock(<<97, 98, 99>>), OpBlock(<<195, 169>>), OpBlock(<<>>), OpBlock(<<255>>),
     OpIndex(0), OpIndex(12)}

DumpInit ==
    /\ SessionOff
    /\ SignOff
    /\ base = <<>> /\ new = <<>> /\ bsize = 1
    /\ delta \in SeqsUpTo(DumpOps, MaxOps)
    /\ out = NoResult
    /\ dphase = "built"

\* delta.dump()
DoDump ==
    /\ dphase = "built"
    /\ out' = Dump(delta)
    /\ dphase' = "dumped"
    /\ UNCHANGED <<base, new, bsize, delta>>
    /\ DeltaFrame

SpecDump == DumpInit /\ [][DoDump]_vars

\* every Block of ops is text
AllText(ops) == \A k \in 1..Len(ops) : IsBlock(ops[k]) => Utf8ValidFrom(ops[k][2], 1)

\* the text of section 8 for one op: the Block's bytes, or <b*i*> for an
\* Index of one or two digits
OpText(o) ==
    IF IsBlock(o) THEN o[2]
    ELSE IF o[2] < 10 THEN <<60, 98, 42, 48 + o[2], 42, 62>>
    ELSE <<60, 98, 42, 48 + (o[2] \div 10), 48 + (o[2] % 10), 42, 62>>

RECURSIVE DumpText(_)
DumpText(ops) == IF ops = <<>> THEN <<>> ELSE OpText(Head(ops)) \o DumpText(Tail(ops))

\* C26: Delta::dump returns the concatenation, in op order, of each Block's
\* bytes as text and of the string <b*i*> for each Index(i); the dump of an
\* empty delta is the empty string
C26_DumpFormat ==
    (dphase = "dumped" /\ AllText(delta)) =>
        /\ out = Ok(DumpText(delta))
        /\ delta = <<>> => out = Ok(<<>>)
        /\ delta = <<OpBlock(<<97, 98, 99>>), OpIndex(0)>>
              => out = Ok(<<97, 98, 99, 60, 98, 42, 48, 42, 62>>)

\* "é", the index 12 and "abc" dumped as é<b*12*>abc
C26_Witness ==
    /\ dphase = "dumped"
    /\ delta = <<OpBlock(<<195, 169>>), OpIndex(12), OpBlock(<<97, 98, 99>>)>>
    /\ out = Ok(<<195, 169, 60, 98, 42, 49, 50, 42, 62, 97, 98, 99>>)

-----------------------------------------------------------------------------
(* Delta::diff: where the copied windows come from (under SpecDelta)         *)

\* the bytes of new an op accounts for: a literal's length, a copied block's B
OpSpan(o, B) == IF IsBlock(o) THEN Len(o[2]) ELSE B

\* the offset in new at which op k of a delta starts
RECURSIVE StartOf(_, _, _)
StartOf(ops, k, B) ==
    IF k <= 1 THEN 0 ELSE StartOf(ops, k - 1, B) + OpSpan(ops[k - 1], B)

\* new[i..i+B) equals base[j*B..(j+1)*B), both wholly inside their buffers
WindowEqualsBlock(i, j) ==
    /\ i + bsize <= Len(new)
    /\ (j + 1) * bsize <= Len(base)
    /\ SubSeq(new, i + 1, i + bsize) = SubSeq(base, j * bsize + 1, (j + 1) * bsize)

\* no B-byte window of new equals any block-aligned block of base
NoWindowMatches ==
    \A i \in 0..(Len(new) - bsize) : \A j \in 0..(Len(base) \div bsize) :
        ~WindowEqualsBlock(i, j)

\* every Index(j) of the delta stands for a window of new equal to block j
IndexOnlyOnEqualWindow ==
    \A k \in 1..Len(delta) :
        IsIndex(delta[k]) => WindowEqualsBlock(StartOf(delta, k, bsize), delta[k][2])

\* C27: Delta::diff emits Index(j) for the window new[i..i+B) only if the window
\* is byte-equal to base[j*B..(j+1)*B), and when no B-byte window of new equals
\* any block-aligned block of base the result is the single op Block(new)
C27_MatchOnlyEqual ==
    dphase = "diffed" =>
        /\ IndexOnlyOnEqualWindow
        /\ NoWindowMatches => delta = <<OpBlock(new)>>

\* C27 as the code has it: with nothing to copy the delta is the one literal
\* Block(new), and no op at all when new is empty
C27_MatchOnlyEqualOrEmpty ==
    dphase = "diffed" =>
        /\ IndexOnlyOnEqualWindow
        /\ NoWindowMatches =>
              delta = (IF new = <<>> THEN <<>> ELSE <<OpBlock(new)>>)

\* a window in the middle of new was copied from a later block of base, and a
\* weak-signature candidate elsewhere was turned down
C27_Witness ==
    /\ dphase = "diffed"
    /\ \E k \in 1..Len(delta) :
          /\ IsIndex(delta[k]) /\ delta[k][2] > 0
          /\ StartOf(delta, k, bsize) > 0
    /\ bsize >= 2
    /\ \E i \in 0..(Len(new) - bsize) :
          LET found == TableFind(BuildIndexTable(base, bsize),
                                 Sign(new, bsize, i).signature)
          IN  found # None /\ ~StrongMatches(found[1][2],
                                             SubSeq(new, i + 1, i + bsize))

\* nothing of base recurs in a new of at least one block: one literal
C27_WitnessLiteral ==
    /\ dphase = "diffed"
    /\ Len(new) >= bsize /\ Len(base) >= bsize
    /\ NoWindowMatches
    /\ delta = <<OpBlock(new)>>

\* C28: when |base| < B and new is byte-identical to base, Delta::diff
\* recognises the files as identical through the single degenerate table entry
\* (index 0, strong signature of the whole base) and emits Index(0) instead of
\* the file's bytes as a literal
C28_ShortIdentical ==
    (dphase = "diffed" /\ Len(base) < bsize /\ new = base) =>
        delta = <<OpIndex(0)>>

\* Delta::is_valid
IsValid(ops) == ops # <<>>

\* C29: Delta::diff returns an empty delta, for which is_valid is false, exactly
\* when new is empty; when 0 < |new| < B it returns the single op Block(new)
\* whatever base is
C29_ShortNew ==
    dphase = "diffed" =>
        /\ (delta = <<>>) <=> (new = <<>>)
        /\ IsValid(delta) <=> (new # <<>>)
        /\ (0 < Len(new) /\ Len(new) < bsize) => delta = <<OpBlock(new)>>

\* a short new against a base of whole blocks that holds new's bytes
C29_Witness ==
    /\ dphase = "diffed"
    /\ 0 < Len(new) /\ Len(new) < bsize
    /\ Len(base) >= bsize
    /\ SubSeq(base, 1, Len(new)) = new
    /\ delta = <<OpBlock(new)>>

\* C30: a delta returned by Delta::diff has no two adjacent Block ops and no
\* empty Block: the literal bytes before the first match, between two matches
\* and after the last match are each one Block
C30_LiteralsCoalesced ==
    dphase = "diffed" =>
        /\ \A k \in 1..Len(delta) : IsBlock(delta[k]) => delta[k][2] # <<>>
        /\ \A k \in 1..(Len(delta) - 1) :
              ~(IsBlock(delta[k]) /\ IsBlock(delta[k + 1]))

\* literals of several bytes before, between and after two matches
C30_Witness ==
    /\ dphase = "diffed"
    /\ Len(delta) = 5
    /\ IsBlock(delta[1]) /\ IsIndex(delta[2]) /\ IsBlock(delta[3])
    /\ IsIndex(delta[4]) /\ IsBlock(delta[5])
    /\ \E k \in {1, 3, 5} : Len(delta[k][2]) >= 2

-----------------------------------------------------------------------------
(* The base's index table                                                    *)

\* C31: for |base| >= B the index table receives exactly floor(|base|/B)
\* insertions, with block indices 0 .. floor(|base|/B)-1 and none for a trailing
\* partial block; hence every Index(i) emitted by Delta::diff has
\* (i+1)*B <= |base|
C31_WholeBlocksOnly ==
    dphase = "diffed" =>
        /\ Len(base) >= bsize =>
              LET adds == ChunkAdds(base, bsize, 0, None)
              IN  /\ Len(adds) = Len(base) \div bsize
                  /\ \A k \in 1..Len(adds) : adds[k][3] = k - 1
        /\ \A k \in 1..Len(delta) :
              IsIndex(delta[k]) => (delta[k][2] + 1) * bsize <= Len(base)

\* a base of two blocks and a partial tail, whose last whole block was copied
C31_Witness ==
    /\ dphase = "diffed"
    /\ bsize >= 2
    /\ Len(base) >= 2 * bsize /\ Len(base) % bsize # 0
    /\ \E k \in 1..Len(delta) :
          IsIndex(delta[k]) /\ (delta[k][2] + 1) * bsize = Len(base) - (Len(base) % bsize)

-----------------------------------------------------------------------------
(* IndexTable on its own: add and find called in any order (SpecTable)       *)

MaxAdds == 3         \* calls of add made on one table
MaxFinds == 2        \* calls of find made on it

\* the weak signatures, strong signatures and block indexes drawn for add
TableWeaks ==
    {WeakSignatureBlock(0, Wide(0, v), v, 0) : v \in {1, 2}}
TableStrongs == {"pippo", "pluto"}
TableIndexes == 0..1

TableInit ==
    /\ SessionOff
    /\ base = <<>> /\ new = <<>> /\ bsize = 1
    /\ delta = <<>> /\ out = NoResult /\ dphase = "table"
    /\ SignOff

TableFrame ==
    UNCHANGED <<pipes, svars, rvars, hvars, base, new, bsize, delta, out, dphase,
                soff, sprev, snext, built, wire>>

\* index_table.add(weak, strong, index)
CallAdd ==
    /\ dphase = "table" /\ Len(itable.adds) < MaxAdds
    /\ \E weak \in TableWeaks, strong \in TableStrongs, index \in TableIndexes :
          itable' = [itable EXCEPT
                        !.map = TableAdd(@, weak, strong, index),
                        !.adds = Append(@, <<weak, strong, index>>)]
    /\ TableFrame

\* index_table.find(signature); the call is kept with the number of adds before it
CallFind ==
    /\ dphase = "table" /\ Len(itable.finds) < MaxFinds
    /\ \E weak \in TableWeaks :
          itable' = [itable EXCEPT
                        !.finds = Append(@, [key |-> weak.signature,
                                             found |-> TableFind(itable.map, weak.signature),
                                             nadds |-> Len(itable.adds)])]
    /\ TableFrame

TableNext == CallAdd \/ CallFind

SpecTable == TableInit /\ [][TableNext]_vars

\* the (index, strong signature) of the latest of the first n adds whose block
\* had signature s, None when none of them had
RECURSIVE LatestAdd(_, _, _)
LatestAdd(adds, n, s) ==
    IF n = 0 THEN None
    ELSE IF adds[n][1].signature = s
         THEN Some(<<adds[n][3], adds[n][2]>>)
         ELSE LatestAdd(adds, n - 1, s)

\* C32: IndexTable::add with a weak signature already present replaces the
\* stored (index, strong signature); find(s) returns the pair given by the most
\* recent add whose block had signature s and None when no add used s, so the
\* table holds at most one candidate per weak value
C32_LastWriterWins ==
    /\ \A k \in 1..Len(itable.finds) :
          LET f == itable.finds[k]
          IN  f.found = LatestAdd(itable.adds, f.nadds, f.key)
    /\ Cardinality(DOMAIN itable.map)
          = Cardinality({itable.adds[k][1].signature : k \in 1..Len(itable.adds)})

\* a signature added twice with different pairs and found after the second
\* add, and a signature never added looked up
C32_Witness ==
    /\ Len(itable.adds) >= 2
    /\ \A k \in 1..Len(itable.adds) : itable.adds[k][1].signature = Wide(0, 1)
    /\ itable.adds[1][3] # itable.adds[2][3] /\ itable.adds[1][2] # itable.adds[2][2]
    /\ Len(itable.finds) = 2
    /\ itable.finds[1] = [key |-> Wide(0, 1), nadds |-> 2,
                          found |-> Some(<<itable.adds[2][3], itable.adds[2][2]>>)]
    /\ itable.finds[2].key = Wide(0, 2) /\ itable.finds[2].found = None

-----------------------------------------------------------------------------
(* The session's options (under Spec)                                        *)

\* the sender has written Arguments(o)
SenderSent(o) ==
    \E k \in 1..Len(trace.ev) : trace.ev[k] = <<"S", "w", MsgArguments(o)>>

\* C33: in a session driven by the sender, the options the receiver uses when
\* it enumerates the destination tree are exactly the ClientServerOpts the
\* sender sent in Arguments: the receiver has read and stored Arguments before
\* it reads the ACK that starts the enumeration
C33_OptionsBeforeAck ==
    [][ ServerReads(MsgACK) =>
            /\ SenderSent(r_opts)
            /\ r_opts = OptsOf(cli)
            /\ r_opts' = r_opts
            /\ ServerWrote = HandleAck(r_flist, OptsOf(cli)).writes
            /\ r_flist' = HandleAck(r_flist, OptsOf(cli)).flist ]_vars

\* the receiver has listed a destination under options that are not the
\* defaults it started with
C33_Witness ==
    /\ r_flist # <<>>
    /\ flist = r_flist
    /\ r_opts = OptsOf(cli)
    /\ r_opts.recursive # DefaultOpts.recursive
    /\ r_opts.exclude # DefaultOpts.exclude
    /\ r_opts.to # DefaultOpts.to

-----------------------------------------------------------------------------
(* Pipeline::receive_stats (under SpecPipeline)                              *)

AllStats(ms) == \A k \in 1..Len(ms) : Tag(ms[k]) = "Stats"

\* the Stats messages among the messages read
StatsAmong(ms) == SelectSeq(ms, LAMBDA m : Tag(m) = "Stats")

\* C34: receive_stats returns Ok without reading when the pipeline is not
\* Connected; when it is Connected it keeps reading, replacing the stored stats
\* on each Stats message, and returns only with an error: Err(IoTimeout) with
\* state Error(IoTimeout) on IoTimeout, Err(UnexpectedMessage) with state Error
\* on any other message
C34_ReceiveStats ==
    /\ pc = "stats_read" =>
          /\ op.connected0 = Connected /\ connected = Connected
          /\ AllStats(op.read)
          /\ op.read # <<>> => stats = Last(op.read)[2]
    /\ (Returned("receive_stats") /\ op.connected0 # Connected) =>
          /\ ret.ok /\ op.read = <<>>
          /\ connected = op.connected0
    /\ (Returned("receive_stats") /\ op.connected0 = Connected) =>
          /\ ~ret.ok
          /\ AllStats(Front(op.read))
          /\ (op.read # <<>> /\ Tag(Last(op.read)) = "IoTimeout") =>
                /\ ret = Err(ErrIoTimeout)
                /\ connected = ErrorState(ErrIoTimeout)
          /\ (op.read # <<>> /\ Tag(Last(op.read)) \notin {"Stats", "IoTimeout"}) =>
                /\ ret = Err(ErrUnexpectedMessage(Last(op.read)))
                /\ connected = ErrorState(ErrUnexpectedMessage(Last(op.read)))
          /\ StatsAmong(op.read) # <<>> => stats = Last(StatsAmong(op.read))[2]

\* a Connected pipeline took two Stats messages and went on reading until the
\* IoTimeout that ended the call
C34_Witness ==
    /\ Returned("receive_stats")
    /\ op.connected0 = Connected
    /\ op.read = <<MsgStats(<<7>>), MsgStats(<<8, 9>>), MsgIoTimeout>>
    /\ stats = <<8, 9>>
    /\ ret = Err(ErrIoTimeout)
    /\ connected = ErrorState(ErrIoTimeout)

-----------------------------------------------------------------------------
(* The receiver's retained file list (under SpecReceiver)                    *)

\* the FlistEntry payloads the receiver has written, in order
EntriesSent ==
    LET w == SelectSeq(trace.ev, LAMBDA e : e[1] = "R" /\ e[2] = "w"
                                            /\ Tag(e[3]) = "FlistEntry")
    IN  [k \in 1..Len(w) |-> w[k][3][2]]

\* the entry last sent to the sender with index i (there is one)
LastSentWith(i) ==
    LET sent == EntriesSent
        at == {k \in 1..Len(sent) : sent[k].index = i}
    IN  sent[CHOOSE k \in at : \A j \in at : j <= k]

\* C35: after any sequence of messages handled by the receiver, more than one
\* ACK included, entry k of its retained file list has index k, so that
\* FileIndex(i) is answered from the entry last sent to the sender with index i
C35_ListIndexedByPosition ==
    \A k \in 1..Len(r_flist) :
        /\ r_flist[k].index = k - 1
        /\ r_flist[k] = LastSentWith(k - 1)

-----------------------------------------------------------------------------
(* The end of the receiver's loop (under Spec)                               *)

\* the ways a turn of the loop fails: the read (end-of-file, undecodable
\* frame), the handler (an error returned, a panic) or a write
FailedTurn == {"eof", "decode", "err", "panic", "write"}

\* C36: after the sender has ended its session and dropped its tunnel, the
\* receiver's next read_message fails with end-of-file and its loop stops;
\* while the sender's pipe stays open the receiver never leaves its loop after
\* a message it handled successfully
C36_LoopEndsAtEof ==
    [][ /\ (~s_alive /\ r_alive) => (~r_alive' /\ r_exit' = "eof")
        /\ (s_alive /\ r_alive /\ ~r_alive') => r_exit' \in FailedTurn \ {"eof"} ]_vars

\* a session that handled every entry is over on both sides: the sender
\* returned Ok and the receiver's loop ended at end-of-file
C36_Witness ==
    /\ step = "exit" /\ ret.ok /\ ~s_alive
    /\ r_flist # <<>> /\ idx = Len(flist) /\ flist = r_flist
    /\ ~r_alive /\ r_exit = "eof"
    /\ c2s = <<>>

=============================================================================
